---- MODULE Spec2Model ----
(***************************************************************************)
(* The streaming audio pipeline of src/src/voice_app/audio.rs: the capture *)
(* and playback device callbacks, the resampler, denoise, Opus encoder and *)
(* Opus decoder worker threads, the ring buffers that link them, and the   *)
(* drop of the pipeline object (SelfListen or P2P).                        *)
(*                                                                         *)
(* Every thread is a small state machine over pc[thread].  One step is one *)
(* access to shared state (a ring buffer endpoint, a run flag, the socket) *)
(* together with the thread-local work up to the next shared access, so    *)
(* every interleaving of the endpoints of a ring buffer is explored.       *)
(*                                                                         *)
(* A sample is an integer.  The device delivers, as its n-th frame, a      *)
(* chunk whose mean is n, so every captured mono sample is a distinct      *)
(* positive number and 0 is silence (Sample::EQUILIBRIUM).                 *)
(***************************************************************************)
EXTENDS Integers, Sequences, FiniteSets, TLC

(***************************************************************************)
(* Bounds.  The sizes of the program are scaled down, keeping their order: *)
(* FrameSize < ChunkSize < Capacity, Capacity not a multiple of ChunkSize. *)
(***************************************************************************)
\* capacity of each ring buffer (HeapRb::new(8192 * 2): 16384 samples)
Capacity == 3
\* resampler_chunk_size (960 samples)
ChunkSize == 2
\* DenoiseState::FRAME_SIZE (480 samples)
FrameSize == 1
\* samples of one Opus frame, the length of encoder_input_buffer (960)
OpusFrameSize == 2
\* resample_process_buffer[0].len(): the output frames of one resampler call
ProcessBufferLen == 2
\* input_config.channels and output_config.channels of the default configs
InChannels == 2
OutChannels == 2
\* frames the audio subsystem hands to one callback, at most
MaxFrames == 2
\* the same, for the runs in which either pipeline is dropped
MaxFramesAll == 1
\* channels, frames and sample values of the buffers handed to deinterleave
\* and interleave
MaxChannels == 3
MaxRowLen == 2
MaxSample == 1
\* frames the capture device delivers in one run of the model
MaxCapture == 4
\* frames the capture device delivers in one run of a pipeline that is
\* never dropped
MaxStreamed == 6
\* datagrams the socket's receive buffer holds
MaxNet == 1

\* i16::MAX as f32
I16Max == 32767
\* Sample::EQUILIBRIUM
EQUILIBRIUM == 0
\* a slot of the playback buffer the callback has not written yet
Unwritten == 0 - 1

VARIABLES
    kind,               \* "SelfListen" or "P2P": the pipeline that was constructed
    rb,                 \* ring buffer -> the samples it holds, oldest first
    run,                \* worker -> its run flag (Arc<AtomicBool>)
    pc,                 \* thread -> where it is in its code
    scratch,            \* worker -> its frame buffer (being filled, then drained)
    denoise_first,      \* the denoise thread's denoise_first
    data_in,            \* the chunks of `data` the capture callback still has to visit
    data_out,           \* `data` of the running playback callback
    out_i,              \* the index i of the playback callback's loop
    resampled,          \* the playback closure's `resampled`
    net,                \* datagrams in the socket's receive buffer
    stream,             \* input_stream / output_stream -> "playing" or "dropped"
    owner,              \* steps of the pipeline's drop that are done (0: not dropped)
    limit,              \* frames the device delivers in this run, and per callback
    call,               \* a call of deinterleave / interleave: arguments and output
    socket,             \* the UDP socket of P2P: what the caller asked for, what
                        \* it is bound and connected to, and what was sent on it
    captured,           \* history: frames the capture device has delivered
    pushed,             \* history: ring buffer -> samples pushed with success
    dropped,            \* history: ring buffer -> samples discarded because it was full
    popped,             \* history: ring buffer -> samples popped
    out_pops,           \* history: results of the running playback callback's pops
    late_frames,        \* history: worker -> frames completed with its run flag false
    app                 \* the application that holds the pipeline: its State, the
                        \* handler it runs, the workers of the pipelines it dropped

vars == <<kind, rb, run, pc, scratch, denoise_first, data_in, data_out, out_i,
          resampled, net, stream, owner, limit, call, app, socket, captured, pushed,
          dropped, popped, out_pops, late_frames>>

(***************************************************************************)
(* The shape of the two pipelines.                                         *)
(***************************************************************************)
Kinds == {"SelfListen", "P2P"}

Workers(k) ==
    IF k = "SelfListen"
    THEN {"resampler_input", "denoise", "resampler_output"}
    ELSE {"resampler_input", "denoise", "encoder", "decoder", "resampler_output"}

Callbacks == {"capture", "playback"}

Threads(k) == Workers(k) \cup Callbacks

\* A ring buffer is named after its producer handle.
RingBuffers(k) ==
    IF k = "SelfListen"
    THEN {"input", "resampler_input", "denoise", "resampler_output"}
    ELSE {"input", "resampler_input", "denoise", "decoder", "resampler_output"}

\* A wiring that gives the playback-side resampler the consumer handle of the
\* denoise thread's input, so that this ring buffer has two consumers.
InShared(k, w) ==
    CASE w = "resampler_input" -> "input"
      [] w = "denoise" -> "resampler_input"
      [] w = "encoder" -> "denoise"
      [] w = "resampler_output" -> "resampler_input"

\* The consumer handle each worker was given.
In(k, w) ==
    CASE w = "resampler_input" -> "input"
      [] w = "denoise" -> "resampler_input"
      [] w = "encoder" -> "denoise"
      [] w = "resampler_output" -> IF k = "SelfListen" THEN "denoise" ELSE "decoder"

\* A wiring that gives the playback-side resampler a second producer handle
\* of the denoise thread's output, so that this ring buffer has two producers.
OutShared(w) ==
    CASE w = "resampler_input" -> "resampler_input"
      [] w = "denoise" -> "denoise"
      [] w = "decoder" -> "decoder"
      [] w = "resampler_output" -> "denoise"

\* The producer handle each worker was given.
Out(w) ==
    CASE w = "resampler_input" -> "resampler_input"
      [] w = "denoise" -> "denoise"
      [] w = "decoder" -> "decoder"
      [] w = "resampler_output" -> "resampler_output"

Resamplers == {"resampler_input", "resampler_output"}

(***************************************************************************)
(* The ring buffer endpoints (ringbuf's Observer, Producer and Consumer).  *)
(***************************************************************************)
\* is_full() that reports a full buffer one sample late.
IsFullOffByOne(q) == Len(q) > Capacity

IsFull(q) == Len(q) >= Capacity

OccupiedLen(q) == Len(q)


\* try_pop() that hands out the newest sample instead of the oldest.
TryPopNewest(q) == IF q = <<>> THEN <<"None">> ELSE <<"Some", q[Len(q)]>>

\* try_pop(): Some(oldest sample), or None when the buffer is empty.
TryPop(q) == IF q = <<>> THEN <<"None">> ELSE <<"Some", Head(q)>>

\* Option::unwrap_or
UnwrapOr(opt, default) == IF opt[1] = "Some" THEN opt[2] ELSE default

\* try_pop() that leaves the sample in the buffer.
AfterPopStays(q) == q

\* The buffer left by try_pop().
AfterPop(q) == IF q = <<>> THEN q ELSE Tail(q)

\* try_push(x) that grows the buffer instead of failing.
CanPushGrows(q) == TRUE

\* try_push(x) succeeds exactly when the buffer is not full.
CanPush(q) == Len(q) < Capacity

\* What the capture device delivers: n frames in all, at most f per callback,
\* and then it stops; or round after round of n frames, without end.
Stops(n, f) == [capture |-> n, frames |-> f, rounds |-> FALSE]

Rounds(n, f) == [capture |-> n, frames |-> f, rounds |-> TRUE]

\* The history h of a ring buffer after the sample x.  A history is kept of
\* the runs in which the device stops.
Noted(h, x) == IF limit.rounds THEN h ELSE Append(h, x)

\* No call of deinterleave / interleave is under observation.
NoCall == [start |-> "none"]

\* The pipeline is on its own: no application is under observation.
NoApp == [at |-> "none"]

\* let port: usize = 4000
Port == 4000

\* socket.connect("127.0.0.1:4000")
Loopback == "127.0.0.1:4000"

\* The local ports and peer endpoints a caller of P2P::new may have in mind
\* (the peer address the user typed); new() has no parameter for either.
Ports == {Port, Port + 1}
Peers == {Loopback, "192.0.2.1:4000"}

\* A socket not yet bound (port 0) nor connected, for a caller that wants
\* local_port and peer_endpoint; nothing was sent on it.
Socket(local_port, peer_endpoint) ==
    [local_port |-> local_port, peer_endpoint |-> peer_endpoint,
     port |-> 0, peer |-> "none", sends |-> 0, sent_to |-> {}]

\* SelfListen has no socket.
NoSocket == Socket(0, "none")

\* The socket once P2P::new has returned.
Connected(local_port, peer_endpoint) ==
    [Socket(local_port, peer_endpoint) EXCEPT !.port = Port, !.peer = Loopback]

(***************************************************************************)
(* Initial state: the constructor has returned; every worker is at the     *)
(* head of its loop, both streams play, every ring buffer is empty.        *)
(***************************************************************************)
Constructed(k, device) ==
    /\ kind = k
    /\ limit = device
    /\ call = NoCall
    /\ socket = IF k = "P2P" THEN Connected(Port, Loopback) ELSE NoSocket
    /\ rb = [r \in RingBuffers(k) |-> <<>>]
    /\ run = [w \in Workers(k) |-> TRUE]
    /\ pc = [t \in Threads(k) \cup {"new"} |->
                CASE t \in Callbacks -> "idle"
                  [] t = "new" -> "returned"
                  [] OTHER -> "loop"]
    /\ scratch = [w \in Workers(k) |-> <<>>]
    /\ denoise_first = TRUE
    /\ data_in = <<>>
    /\ data_out = <<>>
    /\ out_i = 0
    /\ resampled = EQUILIBRIUM
    /\ net = <<>>
    /\ stream = [s \in {"input_stream", "output_stream"} |-> "playing"]
    /\ owner = 0
    /\ captured = 0
    /\ pushed = [r \in RingBuffers(k) |-> <<>>]
    /\ dropped = [r \in RingBuffers(k) |-> <<>>]
    /\ popped = [r \in RingBuffers(k) |-> <<>>]
    /\ out_pops = <<>>
    /\ late_frames = [w \in Workers(k) |-> 0]

\* A pipeline on its own, in that state.
InitOn(k, device) == Constructed(k, device) /\ app = NoApp

\* The same, for a device that delivers n frames, at most f per callback.
InitOf(k, n, f) == InitOn(k, Stops(n, f))

(***************************************************************************)
(* Capture callback (create_input_stream).                                 *)
(***************************************************************************)
\* The c-th interleaved sample of the n-th frame the device delivers: the
\* samples of a frame differ by channel and their mean is n.
DeviceSample(n, c) == n + (InChannels + 1) - 2 * c

DeviceChunk(n) == [c \in 1..InChannels |-> DeviceSample(n, c)]

RECURSIVE Sum(_)
Sum(s) == IF s = <<>> THEN 0 ELSE Head(s) + Sum(Tail(s))

\* A downmix that keeps the first channel only.
DownmixFirst(sample, channels) == sample[1]

\* sample.into_iter().sum::<f32>() / channels as f32
Downmix(sample, channels) == Sum(sample) \div channels

\* The audio subsystem calls the callback with n frames of InChannels samples.
CaptureBegin ==
    /\ stream["input_stream"] = "playing"
    /\ pc["capture"] = "idle"
    /\ \E n \in 1..limit.frames :
        /\ captured + n <= limit.capture
        /\ data_in' = [i \in 1..n |-> DeviceChunk(captured + i)]
        /\ captured' = captured + n
    /\ pc' = [pc EXCEPT !["capture"] = "is_full"]
    /\ UNCHANGED <<kind, rb, run, scratch, denoise_first, data_out, out_i,
                   resampled, net, stream, owner, limit, call, app, socket, pushed,
                   dropped, popped, out_pops, late_frames>>

\* After a chunk: the next chunk, or the callback returns.
CaptureAfter(rest) == IF rest = <<>> THEN "idle" ELSE "is_full"

\* if input_producer.is_full() { continue; }
CaptureIsFull ==
    /\ pc["capture"] = "is_full"
    /\ IF IsFull(rb["input"])
       THEN /\ data_in' = Tail(data_in)
            /\ dropped' = [dropped EXCEPT !["input"] =
                               Noted(@, Downmix(Head(data_in), InChannels))]
            /\ pc' = [pc EXCEPT !["capture"] = CaptureAfter(Tail(data_in))]
       ELSE /\ pc' = [pc EXCEPT !["capture"] = "try_push"]
            /\ UNCHANGED <<data_in, dropped>>
    /\ UNCHANGED <<kind, rb, run, scratch, denoise_first, data_out, out_i,
                   resampled, net, stream, owner, limit, call, app, socket,
                   captured, pushed, popped, out_pops, late_frames>>

\* input_producer.try_push(mean).expect("Failed to push to input buffer")
CapturePush ==
    /\ pc["capture"] = "try_push"
    /\ LET x == Downmix(Head(data_in), InChannels) IN
       IF CanPush(rb["input"])
       THEN /\ rb' = [rb EXCEPT !["input"] = Append(@, x)]
            /\ pushed' = [pushed EXCEPT !["input"] = Noted(@, x)]
            /\ UNCHANGED dropped
            /\ data_in' = Tail(data_in)
            /\ pc' = [pc EXCEPT !["capture"] = CaptureAfter(Tail(data_in))]
       ELSE /\ pc' = [pc EXCEPT !["capture"] = "panicked"]
            /\ UNCHANGED <<rb, pushed, dropped, data_in>>
    /\ UNCHANGED <<kind, run, scratch, denoise_first, data_out, out_i,
                   resampled, net, stream, owner, limit, call, app, socket,
                   captured, popped, out_pops, late_frames>>

(***************************************************************************)
(* Playback callback (create_output_stream).                               *)
(***************************************************************************)
\* The audio subsystem calls the callback with a buffer of n frames of
\* OutChannels slots.
PlaybackBegin ==
    /\ stream["output_stream"] = "playing"
    /\ pc["playback"] = "idle"
    /\ \E n \in 1..limit.frames :
        data_out' = [i \in 1..(n * OutChannels) |-> Unwritten]
    /\ out_i' = 0
    /\ out_pops' = <<>>
    /\ pc' = [pc EXCEPT !["playback"] = "frame"]
    /\ UNCHANGED <<kind, rb, run, scratch, denoise_first, data_in, resampled,
                   net, stream, owner, limit, call, app, socket, captured, pushed,
                   dropped, popped, late_frames>>

\* if i % channels == 0
PopsAt(i, channels) == i % channels = 0

\* An underrun that repeats the last sample instead of silence.
PoppedOrLast(opt) == UnwrapOr(opt, resampled)

\* A playback that removes a sample and plays silence in its place.
PoppedSilence(opt) == EQUILIBRIUM

\* try_pop().unwrap_or(Sample::EQUILIBRIUM)
Popped(opt) == UnwrapOr(opt, EQUILIBRIUM)

\* The slots i+1 .. i+n of the buffer after n iterations of the loop over
\* data.iter_mut().enumerate(), with `last` in `resampled` and `popped_now`
\* what the try_pop of these iterations returned, if one was made.
RECURSIVE WriteSlots(_, _, _, _, _)
WriteSlots(buffer, i, n, last, popped_now) ==
    IF n = 0 THEN <<buffer, last>>
    ELSE LET x == IF PopsAt(i, OutChannels) THEN Popped(popped_now) ELSE last
         IN WriteSlots([buffer EXCEPT ![i + 1] = x], i + 1, n - 1, x, popped_now)

\* The iterations of the loop for one output frame: the try_pop of its first
\* slot and the writes of its OutChannels slots.
PlaybackFrame ==
    /\ pc["playback"] = "frame"
    /\ out_i < Len(data_out)
    /\ LET q == rb["resampler_output"]
           opt == TryPop(q)
           written == WriteSlots(data_out, out_i, OutChannels, resampled, opt)
       IN /\ data_out' = written[1]
          /\ resampled' = written[2]
          /\ IF PopsAt(out_i, OutChannels)
             THEN /\ rb' = [rb EXCEPT !["resampler_output"] = AfterPop(q)]
                  /\ popped' = IF opt[1] = "Some"
                               THEN [popped EXCEPT !["resampler_output"] =
                                        Noted(@, opt[2])]
                               ELSE popped
                  /\ out_pops' = Append(out_pops, opt)
             ELSE UNCHANGED <<rb, popped, out_pops>>
    /\ out_i' = out_i + OutChannels
    /\ UNCHANGED <<kind, run, pc, scratch, denoise_first, data_in, net, stream,
                   owner, limit, call, app, socket, captured, pushed, dropped,
                   late_frames>>

\* The loop is over: the callback returns the buffer to the device.
PlaybackReturn ==
    /\ pc["playback"] = "frame"
    /\ out_i = Len(data_out)
    /\ pc' = [pc EXCEPT !["playback"] = "idle"]
    /\ data_out' = <<>>
    /\ out_i' = 0
    /\ out_pops' = <<>>
    /\ UNCHANGED <<kind, rb, run, scratch, denoise_first, data_in, resampled,
                   net, stream, owner, limit, call, app, socket, captured, pushed,
                   dropped, popped, late_frames>>

(***************************************************************************)
(* Channel layout helpers; every worker is started with channels = 1.      *)
(***************************************************************************)
\* the `channels` argument of create_resampler_thread and create_denoise_thread
WorkerChannels == 1

\* A deinterleave that cuts the buffer into contiguous blocks, one per channel.
DeinterleaveBlocks(channels, input) ==
    [c \in 1..channels |->
        [s \in 1..(Len(input) \div channels) |->
            input[(c - 1) * (Len(input) \div channels) + s]]]

\* output[i % channels][i / channels] = input[i]
Deinterleave(channels, input) ==
    [c \in 1..channels |->
        [s \in 1..(Len(input) \div channels) |-> input[(s - 1) * channels + c]]]

\* An interleave that lays the rows out one after the other.
InterleaveRowMajor(input) ==
    [j \in 1..(Len(input) * Len(input[1])) |->
        input[((j - 1) \div Len(input[1])) + 1][((j - 1) % Len(input[1])) + 1]]

\* output[input.len() * i + channel] = input[channel][i]
Interleave(input) ==
    [j \in 1..(Len(input) * Len(input[1])) |->
        input[((j - 1) % Len(input)) + 1][((j - 1) \div Len(input)) + 1]]

\* A worker is back at the head of its loop; a frame completed while its run
\* flag was already false is counted.
FrameDone(w) ==
    late_frames' = [late_frames EXCEPT ![w] = IF run[w] THEN @ ELSE @ + 1]

callback_vars == <<data_in, data_out, out_i, resampled, out_pops, captured>>

owner_vars == <<kind, run, stream, owner, limit, call, app, socket>>

(***************************************************************************)
(* Resampler thread (create_resampler_thread), w in Resamplers.            *)
(***************************************************************************)
\* resampler.process_into_buffer: ProcessBufferLen output frames per channel,
\* each derived from the input frame at the same relative position.
ProcessIntoBuffer(wave_in) ==
    [c \in 1..Len(wave_in) |->
        [j \in 1..ProcessBufferLen |->
            wave_in[c][(((j - 1) * ChunkSize) \div ProcessBufferLen) + 1]]]

\* deinterleave, process_into_buffer, interleave
Resample(resampler_buffer) ==
    Interleave(ProcessIntoBuffer(Deinterleave(WorkerChannels, resampler_buffer)))

\* A resampler that sets its run flag again when it finds it false.
ResamplerLoadRearms(w) ==
    /\ pc[w] = "loop"
    /\ pc' = [pc EXCEPT ![w] = IF run[w] THEN "occupied_len" ELSE "loop"]
    /\ run' = [run EXCEPT ![w] = TRUE]
    /\ UNCHANGED <<kind, stream, owner, limit, call, app, socket, callback_vars, rb,
                   scratch, denoise_first, net, pushed, dropped, popped,
                   late_frames>>

\* while thread_run.load(Ordering::Relaxed)
ResamplerLoad(w) ==
    /\ pc[w] = "loop"
    /\ pc' = [pc EXCEPT ![w] = IF run[w] THEN "occupied_len" ELSE "done"]
    /\ UNCHANGED <<owner_vars, callback_vars, rb, scratch, denoise_first, net,
                   pushed, dropped, popped, late_frames>>

\* A resampler that starts to drain as soon as its input holds a sample.
ResamplerOccupiedLenAny(w) ==
    /\ pc[w] = "occupied_len"
    /\ IF OccupiedLen(rb[In(kind, w)]) >= 1
       THEN /\ pc' = [pc EXCEPT ![w] = "try_pop"]
            /\ scratch' = [scratch EXCEPT ![w] = <<>>]
       ELSE /\ pc' = [pc EXCEPT ![w] = "loop"]
            /\ UNCHANGED scratch
    /\ UNCHANGED <<owner_vars, callback_vars, rb, denoise_first, net, pushed, dropped,
                   popped, late_frames>>

\* if input_consumer.occupied_len() >= (resampler_chunk_size * channels)
ResamplerOccupiedLen(w) ==
    /\ pc[w] = "occupied_len"
    /\ IF OccupiedLen(rb[In(kind, w)]) >= ChunkSize * WorkerChannels
       THEN /\ pc' = [pc EXCEPT ![w] = "try_pop"]
            /\ scratch' = [scratch EXCEPT ![w] = <<>>]
       ELSE /\ pc' = [pc EXCEPT ![w] = "loop"]
            /\ UNCHANGED scratch
    /\ UNCHANGED <<owner_vars, callback_vars, rb, denoise_first, net, pushed, dropped,
                   popped, late_frames>>

\* *sample = input_consumer.try_pop().expect("Failed to pop from input buffer")
\* and, after the last sample of the chunk, the resampling of the chunk.
ResamplerPop(w) ==
    /\ pc[w] = "try_pop"
    /\ LET r == In(kind, w)
           opt == TryPop(rb[r])
       IN IF opt[1] = "Some"
          THEN LET got == Append(scratch[w], opt[2]) IN
               /\ rb' = [rb EXCEPT ![r] = AfterPop(@)]
               /\ popped' = [popped EXCEPT ![r] = Noted(@, opt[2])]
               /\ IF Len(got) = ChunkSize * WorkerChannels
                  THEN /\ scratch' = [scratch EXCEPT ![w] = Resample(got)]
                       /\ pc' = [pc EXCEPT ![w] = "is_full"]
                  ELSE /\ scratch' = [scratch EXCEPT ![w] = got]
                       /\ UNCHANGED pc
          ELSE /\ pc' = [pc EXCEPT ![w] = "panicked"]
               /\ UNCHANGED <<rb, popped, scratch>>
    /\ UNCHANGED <<owner_vars, callback_vars, denoise_first, net, pushed, dropped,
                   late_frames>>

\* A resampler that waits for room in its output ring buffer.
ResamplerIsFullWaits(w) ==
    /\ pc[w] = "is_full"
    /\ ~IsFull(rb[Out(w)])
    /\ pc' = [pc EXCEPT ![w] = "try_push"]
    /\ UNCHANGED <<owner_vars, callback_vars, rb, scratch, denoise_first, net,
                   pushed, dropped, popped, late_frames>>

\* A resampler that gives up the rest of its frame when a sample finds the
\* output ring buffer full (break instead of continue).
ResamplerIsFullBreaks(w) ==
    /\ pc[w] = "is_full"
    /\ IF IsFull(rb[Out(w)])
       THEN /\ scratch' = [scratch EXCEPT ![w] = <<>>]
            /\ dropped' = [dropped EXCEPT ![Out(w)] = @ \o scratch[w]]
            /\ pc' = [pc EXCEPT ![w] = "loop"]
            /\ FrameDone(w)
       ELSE /\ pc' = [pc EXCEPT ![w] = "try_push"]
            /\ UNCHANGED <<scratch, dropped, late_frames>>
    /\ UNCHANGED <<owner_vars, callback_vars, rb, denoise_first, net, pushed,
                   popped>>

\* if resampler_producer.is_full() { continue; }
ResamplerIsFull(w) ==
    /\ pc[w] = "is_full"
    /\ IF IsFull(rb[Out(w)])
       THEN /\ scratch' = [scratch EXCEPT ![w] = Tail(@)]
            /\ dropped' = [dropped EXCEPT ![Out(w)] = Noted(@, Head(scratch[w]))]
            /\ IF Tail(scratch[w]) = <<>>
               THEN pc' = [pc EXCEPT ![w] = "loop"] /\ FrameDone(w)
               ELSE UNCHANGED <<pc, late_frames>>
       ELSE /\ pc' = [pc EXCEPT ![w] = "try_push"]
            /\ UNCHANGED <<scratch, dropped, late_frames>>
    /\ UNCHANGED <<owner_vars, callback_vars, rb, denoise_first, net, pushed,
                   popped>>

\* resampler_producer.try_push(*sample).expect("Failed to push to resampler buffer")
ResamplerPush(w) ==
    /\ pc[w] = "try_push"
    /\ LET r == Out(w)
           x == Head(scratch[w])
       IN IF CanPush(rb[r])
          THEN /\ rb' = [rb EXCEPT ![r] = Append(@, x)]
               /\ pushed' = [pushed EXCEPT ![r] = Noted(@, x)]
               /\ UNCHANGED dropped
               /\ scratch' = [scratch EXCEPT ![w] = Tail(@)]
               /\ IF Tail(scratch[w]) = <<>>
                  THEN pc' = [pc EXCEPT ![w] = "loop"] /\ FrameDone(w)
                  ELSE pc' = [pc EXCEPT ![w] = "is_full"]
                       /\ UNCHANGED late_frames
          ELSE /\ pc' = [pc EXCEPT ![w] = "panicked"]
               /\ UNCHANGED <<rb, pushed, dropped, scratch, late_frames>>
    /\ UNCHANGED <<owner_vars, callback_vars, denoise_first, net, popped>>

(***************************************************************************)
(* Denoise thread (create_denoise_thread).                                 *)
(***************************************************************************)
\* denoise[i].process_frame: FrameSize output samples, one per input sample.
ProcessFrame(input) == input

\* deinterleave, process_frame per channel, interleave
Denoise(denoise_buffer) ==
    LET planar == Deinterleave(WorkerChannels, denoise_buffer) IN
    Interleave([c \in 1..WorkerChannels |-> ProcessFrame(planar[c])])

\* try_pop() * (i16::MAX as f32)
ScaleIn(x) == x * I16Max

\* *sample / (i16::MAX as f32)
ScaleOut(x) == x \div I16Max

\* A denoise thread that never looks at its run flag (loop { .. }).
DenoiseLoadForever ==
    /\ pc["denoise"] = "loop"
    /\ pc' = [pc EXCEPT !["denoise"] = "occupied_len"]
    /\ UNCHANGED <<owner_vars, callback_vars, rb, scratch, denoise_first, net,
                   pushed, dropped, popped, late_frames>>

\* while thread_run.load(Ordering::Relaxed)
DenoiseLoad ==
    /\ pc["denoise"] = "loop"
    /\ pc' = [pc EXCEPT !["denoise"] =
                 IF run["denoise"] THEN "occupied_len" ELSE "done"]
    /\ UNCHANGED <<owner_vars, callback_vars, rb, scratch, denoise_first, net,
                   pushed, dropped, popped, late_frames>>

\* if input_consumer.occupied_len() >= DenoiseState::FRAME_SIZE * channels
DenoiseOccupiedLen ==
    /\ pc["denoise"] = "occupied_len"
    /\ IF OccupiedLen(rb[In(kind, "denoise")]) >= FrameSize * WorkerChannels
       THEN /\ pc' = [pc EXCEPT !["denoise"] = "try_pop"]
            /\ scratch' = [scratch EXCEPT !["denoise"] = <<>>]
       ELSE /\ pc' = [pc EXCEPT !["denoise"] = "loop"]
            /\ UNCHANGED scratch
    /\ UNCHANGED <<owner_vars, callback_vars, rb, denoise_first, net, pushed, dropped,
                   popped, late_frames>>

\* A denoise stage that emits its first frame like every other.
DenoiseFrameNoWarmUp(got) ==
    /\ scratch' = [scratch EXCEPT !["denoise"] = Denoise(got)]
    /\ denoise_first' = FALSE
    /\ pc' = [pc EXCEPT !["denoise"] = "is_full"]
    /\ UNCHANGED late_frames

\* A denoise stage that never leaves its warm-up: every frame is discarded.
DenoiseFrameDiscardsAll(got) ==
    /\ scratch' = [scratch EXCEPT !["denoise"] = <<>>]
    /\ denoise_first' = FALSE
    /\ pc' = [pc EXCEPT !["denoise"] = "loop"]
    /\ FrameDone("denoise")

\* The frame is in denoise_buffer: it is denoised, and the first one is discarded.
DenoiseFrame(got) ==
    /\ scratch' = [scratch EXCEPT !["denoise"] = IF denoise_first THEN <<>> ELSE Denoise(got)]
    /\ denoise_first' = FALSE
    /\ IF denoise_first
       THEN pc' = [pc EXCEPT !["denoise"] = "loop"] /\ FrameDone("denoise")
       ELSE pc' = [pc EXCEPT !["denoise"] = "is_full"] /\ UNCHANGED late_frames

\* *sample = input_consumer.try_pop().expect(..) * (i16::MAX as f32)
DenoisePop ==
    /\ pc["denoise"] = "try_pop"
    /\ LET r == In(kind, "denoise")
           opt == TryPop(rb[r])
       IN IF opt[1] = "Some"
          THEN LET got == Append(scratch["denoise"], ScaleIn(opt[2])) IN
               /\ rb' = [rb EXCEPT ![r] = AfterPop(@)]
               /\ popped' = [popped EXCEPT ![r] = Noted(@, opt[2])]
               /\ IF Len(got) = FrameSize * WorkerChannels
                  THEN DenoiseFrame(got)
                  ELSE /\ scratch' = [scratch EXCEPT !["denoise"] = got]
                       /\ UNCHANGED <<pc, denoise_first, late_frames>>
          ELSE /\ pc' = [pc EXCEPT !["denoise"] = "panicked"]
               /\ UNCHANGED <<rb, popped, scratch, denoise_first, late_frames>>
    /\ UNCHANGED <<owner_vars, callback_vars, net, pushed, dropped>>

\* if denoise_producer.is_full() { continue; }
DenoiseIsFull ==
    /\ pc["denoise"] = "is_full"
    /\ IF IsFull(rb[Out("denoise")])
       THEN /\ scratch' = [scratch EXCEPT !["denoise"] = Tail(@)]
            /\ dropped' = [dropped EXCEPT ![Out("denoise")] =
                               Noted(@, ScaleOut(Head(scratch["denoise"])))]
            /\ IF Tail(scratch["denoise"]) = <<>>
               THEN pc' = [pc EXCEPT !["denoise"] = "loop"] /\ FrameDone("denoise")
               ELSE UNCHANGED <<pc, late_frames>>
       ELSE /\ pc' = [pc EXCEPT !["denoise"] = "try_push"]
            /\ UNCHANGED <<scratch, dropped, late_frames>>
    /\ UNCHANGED <<owner_vars, callback_vars, rb, denoise_first, net, pushed,
                   popped>>

\* denoise_producer.try_push(*sample / (i16::MAX as f32)).expect(..)
DenoisePush ==
    /\ pc["denoise"] = "try_push"
    /\ LET r == Out("denoise")
           x == ScaleOut(Head(scratch["denoise"]))
       IN IF CanPush(rb[r])
          THEN /\ rb' = [rb EXCEPT ![r] = Append(@, x)]
               /\ pushed' = [pushed EXCEPT ![r] = Noted(@, x)]
               /\ UNCHANGED dropped
               /\ scratch' = [scratch EXCEPT !["denoise"] = Tail(@)]
               /\ IF Tail(scratch["denoise"]) = <<>>
                  THEN pc' = [pc EXCEPT !["denoise"] = "loop"] /\ FrameDone("denoise")
                  ELSE pc' = [pc EXCEPT !["denoise"] = "is_full"]
                       /\ UNCHANGED late_frames
          ELSE /\ pc' = [pc EXCEPT !["denoise"] = "panicked"]
               /\ UNCHANGED <<rb, pushed, dropped, scratch, late_frames>>
    /\ UNCHANGED <<owner_vars, callback_vars, denoise_first, net, popped>>

(***************************************************************************)
(* Opus encoder thread (create_opus_encoder_thread), P2P only.             *)
(***************************************************************************)
\* encoder.encode_float: the datagram that carries one frame.
EncodeFloat(input) == <<"opus", input>>

\* while thread_run.load(Ordering::Relaxed)
EncoderLoad ==
    /\ kind = "P2P"
    /\ pc["encoder"] = "loop"
    /\ pc' = [pc EXCEPT !["encoder"] =
                 IF run["encoder"] THEN "occupied_len" ELSE "done"]
    /\ UNCHANGED <<owner_vars, callback_vars, rb, scratch, denoise_first, net,
                   pushed, dropped, popped, late_frames>>

\* if consumer.occupied_len() >= 960
EncoderOccupiedLen ==
    /\ kind = "P2P"
    /\ pc["encoder"] = "occupied_len"
    /\ IF OccupiedLen(rb[In(kind, "encoder")]) >= OpusFrameSize
       THEN /\ pc' = [pc EXCEPT !["encoder"] = "try_pop"]
            /\ scratch' = [scratch EXCEPT !["encoder"] = <<>>]
       ELSE /\ pc' = [pc EXCEPT !["encoder"] = "loop"]
            /\ UNCHANGED scratch
    /\ UNCHANGED <<owner_vars, callback_vars, rb, denoise_first, net, pushed, dropped,
                   popped, late_frames>>

\* *sample = consumer.try_pop().expect("Failed to pop from consumer")
EncoderPop ==
    /\ kind = "P2P"
    /\ pc["encoder"] = "try_pop"
    /\ LET r == In(kind, "encoder")
           opt == TryPop(rb[r])
       IN IF opt[1] = "Some"
          THEN LET got == Append(scratch["encoder"], opt[2]) IN
               /\ rb' = [rb EXCEPT ![r] = AfterPop(@)]
               /\ popped' = [popped EXCEPT ![r] = Noted(@, opt[2])]
               /\ scratch' = [scratch EXCEPT !["encoder"] = got]
               /\ pc' = [pc EXCEPT !["encoder"] =
                            IF Len(got) = OpusFrameSize THEN "send" ELSE "try_pop"]
          ELSE /\ pc' = [pc EXCEPT !["encoder"] = "panicked"]
               /\ UNCHANGED <<rb, popped, scratch>>
    /\ UNCHANGED <<owner_vars, callback_vars, denoise_first, net, pushed, dropped,
                   late_frames>>

\* The socket's receive buffer after a datagram arrives: a datagram that does
\* not fit is lost.
Deliver(queue, datagram) ==
    IF Len(queue) < MaxNet THEN Append(queue, datagram) ELSE queue

\* The connected peer is this socket itself: what it sends comes back to it.
ToSelf == socket.port = Port /\ socket.peer = Loopback

\* The socket after a call of send: one more attempt; Ok put a datagram on
\* the wire to the connected peer.
AfterSend(ok) ==
    [socket EXCEPT !.sends = @ + 1,
                   !.sent_to = IF ok THEN @ \cup {socket.peer} ELSE @]

\* An encoder that unwraps the result of send: a failed send ends the thread.
EncoderSendExpects ==
    /\ kind = "P2P"
    /\ pc["encoder"] = "send"
    /\ \E ok \in BOOLEAN :
        /\ socket' = AfterSend(ok)
        /\ IF ok
           THEN /\ net' = Deliver(net, EncodeFloat(scratch["encoder"]))
                /\ scratch' = [scratch EXCEPT !["encoder"] = <<>>]
                /\ pc' = [pc EXCEPT !["encoder"] = "loop"]
                /\ FrameDone("encoder")
           ELSE /\ pc' = [pc EXCEPT !["encoder"] = "panicked"]
                /\ UNCHANGED <<net, scratch, late_frames>>
    /\ UNCHANGED <<kind, run, stream, owner, limit, call, app, callback_vars, rb,
                   denoise_first, pushed, dropped, popped>>

\* An encoder that sends a frame again when send fails.
EncoderSendRetries ==
    /\ kind = "P2P"
    /\ pc["encoder"] = "send"
    /\ \E ok \in BOOLEAN :
        /\ socket' = AfterSend(ok)
        /\ IF ok
           THEN /\ net' = IF ToSelf
                          THEN Deliver(net, EncodeFloat(scratch["encoder"]))
                          ELSE net
                /\ scratch' = [scratch EXCEPT !["encoder"] = <<>>]
                /\ pc' = [pc EXCEPT !["encoder"] = "loop"]
                /\ FrameDone("encoder")
           ELSE UNCHANGED <<net, scratch, pc, late_frames>>
    /\ UNCHANGED <<kind, run, stream, owner, limit, call, app, callback_vars, rb,
                   denoise_first, pushed, dropped, popped>>

\* encode_float, then sender.send(..): Ok puts the datagram on the wire to the
\* connected peer (this socket's own port); Err drops it (continue).
EncoderSend ==
    /\ kind = "P2P"
    /\ pc["encoder"] = "send"
    /\ \E ok \in BOOLEAN :
        /\ socket' = AfterSend(ok)
        /\ net' = IF ok /\ ToSelf
                  THEN Deliver(net, EncodeFloat(scratch["encoder"]))
                  ELSE net
    /\ scratch' = [scratch EXCEPT !["encoder"] = <<>>]
    /\ pc' = [pc EXCEPT !["encoder"] = "loop"]
    /\ FrameDone("encoder")
    /\ UNCHANGED <<kind, run, stream, owner, limit, call, app, callback_vars, rb,
                   denoise_first, pushed, dropped, popped>>

(***************************************************************************)
(* Opus decoder thread (create_opus_decoder_thread), P2P only.             *)
(***************************************************************************)
\* A datagram on port 4000 that is not an Opus packet.
Foreign == <<"noise">>

\* decoder.decode_float: Ok(the samples of the frame the datagram carries),
\* or Err for a datagram that is not an Opus packet.
DecodeFloat(datagram) ==
    IF datagram[1] = "opus" THEN <<"Ok", datagram[2]>> ELSE <<"Err">>

\* A datagram that did not come from the encoder reaches the socket.
ForeignDatagram ==
    /\ kind = "P2P"
    /\ net' = Deliver(net, Foreign)
    /\ UNCHANGED <<owner_vars, callback_vars, rb, pc, scratch, denoise_first,
                   pushed, dropped, popped, late_frames>>

\* while thread_run.load(Ordering::Relaxed)
DecoderLoad ==
    /\ kind = "P2P"
    /\ pc["decoder"] = "loop"
    /\ pc' = [pc EXCEPT !["decoder"] = IF run["decoder"] THEN "recv" ELSE "done"]
    /\ UNCHANGED <<owner_vars, callback_vars, rb, scratch, denoise_first, net,
                   pushed, dropped, popped, late_frames>>

\* A decoder that conceals a missing packet: when recv has no datagram it
\* emits a frame of silence.
DecoderRecvConceals ==
    /\ kind = "P2P"
    /\ pc["decoder"] = "recv"
    /\ IF net # <<>>
       THEN LET decoded == DecodeFloat(Head(net)) IN
            /\ net' = Tail(net)
            /\ IF decoded[1] = "Ok"
               THEN /\ scratch' = [scratch EXCEPT !["decoder"] = decoded[2]]
                    /\ pc' = [pc EXCEPT !["decoder"] = "try_push"]
               ELSE /\ pc' = [pc EXCEPT !["decoder"] = "panicked"]
                    /\ UNCHANGED scratch
       ELSE /\ scratch' = [scratch EXCEPT !["decoder"] =
                              [i \in 1..OpusFrameSize |-> EQUILIBRIUM]]
            /\ pc' = [pc EXCEPT !["decoder"] = "try_push"]
            /\ UNCHANGED net
    /\ UNCHANGED <<owner_vars, callback_vars, rb, denoise_first, pushed, dropped, popped,
                   late_frames>>

\* if let Ok(received) = receiver.recv(..): a datagram is received and
\* decoded (decode_float(..).expect("Failed to decode")), or the non-blocking
\* recv returns WouldBlock.
DecoderRecv ==
    /\ kind = "P2P"
    /\ pc["decoder"] = "recv"
    /\ IF net # <<>>
       THEN LET decoded == DecodeFloat(Head(net)) IN
            /\ net' = Tail(net)
            /\ IF decoded[1] = "Ok"
               THEN /\ scratch' = [scratch EXCEPT !["decoder"] = decoded[2]]
                    /\ pc' = [pc EXCEPT !["decoder"] = "try_push"]
               ELSE /\ pc' = [pc EXCEPT !["decoder"] = "panicked"]
                    /\ UNCHANGED scratch
       ELSE /\ pc' = [pc EXCEPT !["decoder"] = "loop"]
            /\ UNCHANGED <<net, scratch>>
    /\ UNCHANGED <<owner_vars, callback_vars, rb, denoise_first, pushed, dropped, popped,
                   late_frames>>

\* producer.try_push(*sample).expect("Failed to push to producer")
DecoderPush ==
    /\ kind = "P2P"
    /\ pc["decoder"] = "try_push"
    /\ LET r == Out("decoder")
           x == Head(scratch["decoder"])
       IN IF CanPush(rb[r])
          THEN /\ rb' = [rb EXCEPT ![r] = Append(@, x)]
               /\ pushed' = [pushed EXCEPT ![r] = Noted(@, x)]
               /\ UNCHANGED dropped
               /\ scratch' = [scratch EXCEPT !["decoder"] = Tail(@)]
               /\ IF Tail(scratch["decoder"]) = <<>>
                  THEN pc' = [pc EXCEPT !["decoder"] = "loop"] /\ FrameDone("decoder")
                  ELSE UNCHANGED <<pc, late_frames>>
          ELSE /\ pc' = [pc EXCEPT !["decoder"] = "panicked"]
               /\ UNCHANGED <<rb, pushed, dropped, scratch, late_frames>>
    /\ UNCHANGED <<owner_vars, callback_vars, denoise_first, net, popped>>

(***************************************************************************)
(* Drop of the pipeline object: Drop::drop stores the run flags, then the  *)
(* fields are dropped in the order the struct declares them.               *)
(***************************************************************************)
\* The device streams in the order the constructor creates them:
\* create_input_stream, then the workers, then create_output_stream.
StreamsCreated == <<"input_stream", "output_stream">>

\* A drop of SelfListen that stops the stream created last first.
SelfListenDropReversed ==
    <<"denoise", "resampler_input", "resampler_output",
      "output_stream", "input_stream">>

\* A drop of SelfListen that forgets the flag of the output resampler.
SelfListenDropForgets ==
    <<"denoise", "resampler_input", "input_stream", "output_stream">>

\* A drop of P2P that stops the playback stream before the capture stream.
P2PDropPlaybackFirst ==
    <<"denoise", "resampler_input", "encoder", "decoder", "resampler_output",
      "output_stream", "input_stream">>

\* impl Drop for SelfListen, then the fields of struct SelfListen
SelfListenDrop ==
    <<"denoise", "resampler_input", "resampler_output",
      "input_stream", "output_stream">>

\* impl Drop for P2P, then the fields of struct P2P
P2PDrop ==
    <<"denoise", "resampler_input", "encoder", "decoder", "resampler_output",
      "input_stream", "output_stream">>

DropOrder(k) == IF k = "SelfListen" THEN SelfListenDrop ELSE P2PDrop

\* The callback a stream drives.
CallbackOf(s) == IF s = "input_stream" THEN "capture" ELSE "playback"

Dropped == owner = Len(DropOrder(kind))

\* A store that flips the run flag instead of clearing it.
StoreToggles(flag) == ~flag

\* thread_run.store(false, Ordering::Relaxed)
StoreFalse(flag) == FALSE

\* The next step of the drop: a store of false into a run flag, which the
\* next load of the flag reads, or the drop
\* of a stream field, which ends its callbacks (a running callback returns
\* first).
DropStep ==
    /\ pc["new"] = "returned"
    /\ owner < Len(DropOrder(kind))
    /\ LET s == DropOrder(kind)[owner + 1] IN
       IF s \in Workers(kind)
       THEN /\ run' = [run EXCEPT ![s] = StoreFalse(@)]
            /\ UNCHANGED stream
       ELSE /\ pc[CallbackOf(s)] = "idle"
            /\ stream' = [stream EXCEPT ![s] = "dropped"]
            /\ UNCHANGED run
    /\ owner' = owner + 1
    /\ UNCHANGED <<kind, limit, call, app, socket, callback_vars, rb, pc, scratch,
                   denoise_first, net, pushed, dropped, popped, late_frames>>

\* The run flags and streams after the steps i + 1 .. of the drop of a
\* pipeline of kind k were applied to the flags r and the streams st.
RECURSIVE DropFrom(_, _, _, _)
DropFrom(k, i, r, st) ==
    IF i >= Len(DropOrder(k)) THEN <<r, st>>
    ELSE LET s == DropOrder(k)[i + 1] IN
         IF s \in Workers(k)
         THEN DropFrom(k, i + 1, [r EXCEPT ![s] = StoreFalse(@)], st)
         ELSE DropFrom(k, i + 1, r, [st EXCEPT ![s] = "dropped"])

\* The whole teardown: drop() and then the drop of the fields.
Teardown(k, r, st) == DropFrom(k, 0, r, st)

(***************************************************************************)
(* Specifications.                                                         *)
(***************************************************************************)
CaptureStep == CaptureBegin \/ CaptureIsFull \/ CapturePush

PlaybackStep == PlaybackBegin \/ PlaybackFrame \/ PlaybackReturn

ResamplerStep(w) ==
    \/ ResamplerLoad(w)
    \/ ResamplerOccupiedLen(w)
    \/ ResamplerPop(w)
    \/ ResamplerIsFull(w)
    \/ ResamplerPush(w)

DenoiseStep ==
    DenoiseLoad \/ DenoiseOccupiedLen \/ DenoisePop \/ DenoiseIsFull \/ DenoisePush

EncoderStep == EncoderLoad \/ EncoderOccupiedLen \/ EncoderPop \/ EncoderSend

DecoderStep == DecoderLoad \/ DecoderRecv \/ DecoderPush

\* The SelfListen pipeline.
Init == InitOf("SelfListen", MaxCapture, MaxFrames)

Next ==
    \/ CaptureStep
    \/ PlaybackStep
    \/ \E w \in Resamplers : ResamplerStep(w)
    \/ DenoiseStep
    \/ DropStep

Spec == Init /\ [][Next]_vars

\* Either pipeline.
NextAll ==
    \/ CaptureStep
    \/ PlaybackStep
    \/ \E w \in Resamplers : ResamplerStep(w)
    \/ DenoiseStep
    \/ EncoderStep
    \/ DecoderStep
    \/ DropStep

InitAll == \E k \in Kinds : InitOf(k, MaxCapture, MaxFramesAll)

SpecAll == InitAll /\ [][NextAll]_vars

\* Either pipeline in steady state: the constructor has returned and the
\* pipeline is not dropped.
InitStreaming == \E k \in Kinds : InitOf(k, MaxStreamed, MaxFrames)

NextStreaming ==
    \/ CaptureStep
    \/ PlaybackStep
    \/ \E w \in Resamplers : ResamplerStep(w)
    \/ DenoiseStep
    \/ EncoderStep
    \/ DecoderStep

SpecStreaming == InitStreaming /\ [][NextStreaming]_vars

(***************************************************************************)
(* The constructor (SelfListen::new, P2P::new), run by the thread "new".   *)
(***************************************************************************)
\* A SelfListen::new that plays the capture stream as soon as it is built.
SelfListenNewPlaysFirst ==
    <<"default_input_config", "default_output_config",
      "input_stream", "play_input", "resampler_input", "denoise",
      "resampler_output", "output_stream", "play_output">>

\* The statements of SelfListen::new that can fail or start something.
SelfListenNew ==
    <<"default_input_config", "default_output_config",
      "input_stream", "resampler_input", "denoise", "resampler_output",
      "output_stream", "play_input", "play_output">>

\* The statements of P2P::new that can fail or start something.
P2PNew ==
    <<"default_input_config", "default_output_config",
      "bind", "set_nonblocking", "connect", "try_clone",
      "input_stream", "resampler_input", "denoise", "encoder", "decoder",
      "resampler_output", "output_stream", "play_input", "play_output">>

NewOrder(k) == IF k = "SelfListen" THEN SelfListenNew ELSE P2PNew

\* The statement after statement number i, or the return of the pipeline.
NewAfter(k, i) == IF i < Len(NewOrder(k)) THEN NewOrder(k)[i + 1] ELSE "returned"

\* The stream a statement of the constructor works on, and what the
\* statement makes of it.
NewStreams ==
    [input_stream |-> <<"input_stream", "built">>,
     output_stream |-> <<"output_stream", "built">>,
     play_input |-> <<"input_stream", "playing">>,
     play_output |-> <<"output_stream", "playing">>]

\* Before the constructor has run: no stream is built, no thread spawned;
\* the caller has a local port of `ports` and a peer of `peers` in mind.
Asked(k, device, ports, peers) ==
    /\ kind = k
    /\ limit = device
    /\ call = NoCall
    /\ \E local_port \in ports, peer_endpoint \in peers :
         socket = IF k = "P2P" THEN Socket(local_port, peer_endpoint) ELSE NoSocket
    /\ rb = [r \in RingBuffers(k) |-> <<>>]
    /\ run = [w \in Workers(k) |-> TRUE]
    /\ pc = [t \in Threads(k) \cup {"new"} |->
                CASE t \in Callbacks -> "idle"
                  [] t = "new" -> NewOrder(k)[1]
                  [] OTHER -> "unspawned"]
    /\ scratch = [w \in Workers(k) |-> <<>>]
    /\ denoise_first = TRUE
    /\ data_in = <<>>
    /\ data_out = <<>>
    /\ out_i = 0
    /\ resampled = EQUILIBRIUM
    /\ net = <<>>
    /\ stream = [s \in {"input_stream", "output_stream"} |-> "unbuilt"]
    /\ owner = 0
    /\ captured = 0
    /\ pushed = [r \in RingBuffers(k) |-> <<>>]
    /\ dropped = [r \in RingBuffers(k) |-> <<>>]
    /\ popped = [r \in RingBuffers(k) |-> <<>>]
    /\ out_pops = <<>>
    /\ late_frames = [w \in Workers(k) |-> 0]

\* A pipeline on its own, in that state, for a device that delivers n frames,
\* at most f per callback.
InitNewAsked(k, n, f, ports, peers) ==
    Asked(k, Stops(n, f), ports, peers) /\ app = NoApp

InitNewOf(k, n, f) == InitNewAsked(k, n, f, Ports, Peers)

\* The next statement of the constructor.  create_*_thread spawns a worker,
\* which starts to run at once.  Every other statement is a call whose
\* Result the constructor unwraps with expect: Ok goes on, Err panics, and
\* the unwinding drops the streams built so far (a running callback returns
\* first); the workers spawned so far are left running.
NewStep ==
    /\ pc["new"] \notin {"returned", "panicked"}
    /\ LET at == pc["new"]
           i == CHOOSE j \in 1..Len(NewOrder(kind)) : NewOrder(kind)[j] = at
           next == NewAfter(kind, i)
       IN IF at \in Workers(kind)
          THEN /\ pc' = [pc EXCEPT !["new"] = next, ![at] = "loop"]
               /\ UNCHANGED <<stream, socket>>
          ELSE \E ok \in BOOLEAN :
                IF ok
                THEN /\ pc' = [pc EXCEPT !["new"] = next]
                     /\ socket' = CASE at = "bind" -> [socket EXCEPT !.port = Port]
                                     [] at = "connect" -> [socket EXCEPT !.peer = Loopback]
                                     [] OTHER -> socket
                     /\ stream' = IF at \in DOMAIN NewStreams
                                  THEN [stream EXCEPT ![NewStreams[at][1]] =
                                           NewStreams[at][2]]
                                  ELSE stream
                ELSE /\ \A c \in Callbacks : pc[c] = "idle"
                     /\ pc' = [pc EXCEPT !["new"] = "panicked"]
                     /\ UNCHANGED socket
                     /\ stream' = [s \in DOMAIN stream |->
                                     IF stream[s] = "unbuilt" THEN "unbuilt"
                                     ELSE "dropped"]
    /\ UNCHANGED <<kind, limit, call, app, run, owner, callback_vars, rb, scratch,
                   denoise_first, net, pushed, dropped, popped, late_frames>>

\* Either pipeline from the call of its constructor on.
InitNew == \E k \in Kinds : InitNewOf(k, MaxCapture, MaxFrames)

NextNew == NewStep \/ NextStreaming

SpecNew == InitNew /\ [][NextNew]_vars

(***************************************************************************)
(* The helpers deinterleave and interleave, called on their own: on an     *)
(* interleaved buffer b of N * C samples (deinterleave, then interleave),  *)
(* or on a planar buffer p of C rows of N samples (interleave, then        *)
(* deinterleave with C channels).  No pipeline exists.                     *)
(***************************************************************************)
Samples == 0..MaxSample

InitHelpers ==
    /\ \E C \in 1..MaxChannels, N \in 0..MaxRowLen :
         \/ \E b \in [1..(N * C) -> Samples] :
               call = [start |-> "interleaved", channels |-> C, original |-> b,
                       value |-> b, done |-> 0]
         \/ \E p \in [1..C -> [1..N -> Samples]] :
               call = [start |-> "planar", channels |-> C, original |-> p,
                       value |-> p, done |-> 0]
    /\ kind = "none"
    /\ limit = Stops(0, 0)
    /\ app = NoApp
    /\ socket = NoSocket
    /\ rb = <<>>
    /\ run = <<>>
    /\ pc = <<>>
    /\ scratch = <<>>
    /\ denoise_first = TRUE
    /\ data_in = <<>>
    /\ data_out = <<>>
    /\ out_i = 0
    /\ resampled = EQUILIBRIUM
    /\ net = <<>>
    /\ stream = <<>>
    /\ owner = 0
    /\ captured = 0
    /\ pushed = <<>>
    /\ dropped = <<>>
    /\ popped = <<>>
    /\ out_pops = <<>>
    /\ late_frames = <<>>

pipeline_vars ==
    <<kind, limit, socket, app, rb, run, pc, scratch, denoise_first, data_in, data_out, out_i,
      resampled, net, stream, owner, captured, pushed, dropped, popped,
      out_pops, late_frames>>

\* deinterleave(channels, &value, &mut output), output sized C rows of N slots
CallDeinterleave ==
    /\ \/ call.start = "interleaved" /\ call.done = 0
       \/ call.start = "planar" /\ call.done = 1
    /\ call' = [call EXCEPT !.value = Deinterleave(call.channels, call.value),
                            !.done = @ + 1]
    /\ UNCHANGED pipeline_vars

\* interleave(&value, &mut output), output sized N * C slots
CallInterleave ==
    /\ \/ call.start = "planar" /\ call.done = 0
       \/ call.start = "interleaved" /\ call.done = 1
    /\ call' = [call EXCEPT !.value = Interleave(call.value), !.done = @ + 1]
    /\ UNCHANGED pipeline_vars

NextHelpers == CallDeinterleave \/ CallInterleave

SpecHelpers == InitHelpers /\ [][NextHelpers]_vars

(***************************************************************************)
(* Runtime errors of the workers' fallible calls.  Each call's Result is   *)
(* unwrapped with expect, so Err panics and ends the thread that made the  *)
(* call; the threads are detached and nothing observes the panic.          *)
(***************************************************************************)
\* No worker has failed so far.
NoneFailed == \A w \in Workers(kind) : pc[w] # "panicked"

\* FftFixedIn::new(..).expect("Failed to create input buffer") on Err: the
\* spawned thread ends before the first turn of its loop.  The thread runs
\* this whenever it is first scheduled; it has taken nothing from its input.
ResamplerNewFails(w) ==
    /\ NoneFailed
    /\ pc[w] = "loop"
    /\ popped[In(kind, w)] = <<>>
    /\ pc' = [pc EXCEPT ![w] = "panicked"]
    /\ UNCHANGED <<owner_vars, callback_vars, rb, scratch, denoise_first, net,
                   pushed, dropped, popped, late_frames>>

\* encoder.encode_float(..).expect("Failed to encode") on Err: no send.
EncoderFails ==
    /\ kind = "P2P"
    /\ NoneFailed
    /\ pc["encoder"] = "send"
    /\ pc' = [pc EXCEPT !["encoder"] = "panicked"]
    /\ UNCHANGED <<owner_vars, callback_vars, rb, scratch, denoise_first, net,
                   pushed, dropped, popped, late_frames>>

\* The P2P pipeline in steady state when one fallible call of a worker
\* returns Err.
InitFailure == InitOf("P2P", MaxStreamed, MaxFrames)

NextFailure ==
    \/ NextStreaming
    \/ \E w \in Resamplers : ResamplerNewFails(w)
    \/ EncoderFails

SpecFailure == InitFailure /\ [][NextFailure]_vars

\* The whole life of either pipeline: its constructor, its streaming, the
\* failure of a worker, and its drop once the constructor has returned it.
InitLife ==
    \E k \in Kinds : InitNewAsked(k, MaxCapture, MaxFramesAll, {Port}, {Loopback})

NextLife ==
    \/ NewStep
    \/ NextStreaming
    \/ \E w \in Resamplers : ResamplerNewFails(w)
    \/ DropStep

SpecLife == InitLife /\ [][NextLife]_vars

\* The P2P pipeline in steady state on a network where datagrams of other
\* senders reach port 4000.
InitForeign == InitOf("P2P", MaxCapture, MaxFrames)

NextForeign == NextStreaming \/ ForeignDatagram

SpecForeign == InitForeign /\ [][NextForeign]_vars

\* The next step of worker w.
WorkerStep(w) ==
    \/ w \in Resamplers /\ ResamplerStep(w)
    \/ w = "denoise" /\ DenoiseStep
    \/ w = "encoder" /\ EncoderStep
    \/ w = "decoder" /\ DecoderStep

(***************************************************************************)
(* C1.  In steady state no stage panics: no capture callback, playback     *)
(* callback, resampler, denoise, encoder or decoder thread reaches a       *)
(* failed expect, whatever the interleaving and whatever ring buffer is    *)
(* full or empty.                                                          *)
(***************************************************************************)
C1_NoStagePanics == \A t \in Threads(kind) : pc[t] # "panicked"

(***************************************************************************)
(* Helpers of the claims.                                                  *)
(***************************************************************************)
Min(a, b) == IF a < b THEN a ELSE b

IsPrefix(s, t) == Len(s) <= Len(t) /\ SubSeq(t, 1, Len(s)) = s

IsSuffix(s, t) == Len(s) <= Len(t) /\ SubSeq(t, Len(t) - Len(s) + 1, Len(t)) = s

\* The samples among the results of a sequence of try_pops.
RECURSIVE Somes(_)
Somes(opts) ==
    IF opts = <<>> THEN <<>>
    ELSE IF Head(opts)[1] = "Some" THEN <<Head(opts)[2]>> \o Somes(Tail(opts))
         ELSE Somes(Tail(opts))

\* The frames of `data` the capture callbacks have dealt with so far.
Visited == captured - Len(data_in)

(***************************************************************************)
(* C2.  A sample the capture callback delivers while the input ring buffer *)
(* is full is discarded: the step that finds the buffer full leaves its    *)
(* contents unchanged and goes on to the next chunk (or returns); the      *)
(* callback never panics and never waits: while it runs its next step is   *)
(* enabled; and as long as no consumer has popped, the buffer holds        *)
(* exactly the first min(delivered, Capacity) samples.                     *)
(***************************************************************************)
C2_CaptureDropsOnFull ==
    /\ [](pc["capture"] \notin {"idle", "panicked"} => ENABLED CaptureStep)
    /\ [][(/\ pc["capture"] = "is_full"
           /\ IsFull(rb["input"])
           /\ pc["capture"]' # "is_full" \/ data_in' # data_in)
          => /\ rb'["input"] = rb["input"]
             /\ Len(rb'["input"]) = Capacity
             /\ data_in' = Tail(data_in)
             /\ pc'["capture"] = CaptureAfter(data_in')]_vars
    /\ [][/\ pc'["capture"] # "panicked"
          /\ popped'["input"] = <<>>
                => rb'["input"] = [i \in 1..Min(Visited', Capacity) |-> i]]_vars

\* The callback has returned after it delivered more than Capacity samples
\* with no consumer running: the first Capacity samples are in the buffer.
C2_Witness ==
    /\ pc["capture"] = "idle"
    /\ captured > Capacity
    /\ popped["input"] = <<>>
    /\ rb["input"] = [i \in 1..Capacity |-> i]

(***************************************************************************)
(* C3.  For every ring buffer, the samples popped so far are a prefix of   *)
(* the samples pushed with success, in the same order and without          *)
(* duplicates, and never more than were pushed.                            *)
(***************************************************************************)
C3_PoppedIsPrefixOfPushed ==
    \A r \in RingBuffers(kind) :
        /\ IsPrefix(popped[r], pushed[r])
        /\ Len(popped[r]) <= Len(pushed[r])
        /\ \A i, j \in 1..Len(popped[r]) : i < j => popped[r][i] < popped[r][j]

\* Samples went through every ring buffer, and one that was pushed is still
\* waiting for its consumer.
C3_Witness ==
    /\ kind = "P2P"
    /\ Len(popped["resampler_output"]) >= 2
    /\ \A r \in RingBuffers(kind) : popped[r] # <<>>
    /\ \E r \in RingBuffers(kind) : Len(popped[r]) < Len(pushed[r])

(***************************************************************************)
(* C4.  The occupancy of every ring buffer of either pipeline is between 0 *)
(* and Capacity in every reachable state.                                  *)
(***************************************************************************)
C4_OccupancyWithinCapacity ==
    \A r \in RingBuffers(kind) : Len(rb[r]) >= 0 /\ Len(rb[r]) <= Capacity

\* A P2P ring buffer is full while its producer has a sample to push.
C4_Witness ==
    /\ kind = "P2P"
    /\ Len(rb["resampler_input"]) = Capacity
    /\ pc["resampler_input"] = "is_full"

(***************************************************************************)
(* C5.  In a playback callback one pop is attempted per output frame; all  *)
(* OutChannels slots of the frame get the popped sample, or 0 when the     *)
(* buffer was empty; when the callback returns every slot is written.      *)
(***************************************************************************)
C5_PlaybackUpmix ==
    pc["playback"] = "frame" =>
        /\ Len(out_pops) * OutChannels = out_i
        /\ \A i \in 1..Len(data_out) :
            IF i <= out_i
            THEN LET opt == out_pops[((i - 1) \div OutChannels) + 1] IN
                 data_out[i] = IF opt[1] = "Some" THEN opt[2] ELSE EQUILIBRIUM
            ELSE data_out[i] = Unwritten
        /\ out_i = Len(data_out) => \A i \in 1..Len(data_out) : data_out[i] # Unwritten

\* A callback of two frames is about to return: one frame got a sample, the
\* other an underrun.
C5_Witness ==
    /\ pc["playback"] = "frame"
    /\ out_i = Len(data_out)
    /\ Len(out_pops) = 2
    /\ out_pops[1][1] = "Some"
    /\ out_pops[2][1] = "None"

(***************************************************************************)
(* C6.  The playback callback never waits: whatever the occupancy of its   *)
(* ring buffer its next step is enabled; it removes at most one sample per *)
(* output frame; and what it removes is what it plays, in FIFO order, with *)
(* no sample of the buffer skipped.                                        *)
(***************************************************************************)
C6_PlaybackNeverWaits ==
    LET r == "resampler_output" IN
    /\ pc["playback"] = "frame" => ENABLED PlaybackStep
    /\ Len(Somes(out_pops)) <= Len(data_out) \div OutChannels
    /\ IsSuffix(Somes(out_pops), popped[r])
    /\ pushed[r] = popped[r] \o rb[r]
    /\ pc["playback"] = "frame" =>
           \A f \in 1..Len(out_pops) :
               out_pops[f][1] = "Some" => data_out[(f - 1) * OutChannels + 1] = out_pops[f][2]

\* An underrun in the middle of a callback: the buffer is empty, a frame is
\* still to be written, and an earlier frame of the callback got a sample.
C6_Witness ==
    /\ pc["playback"] = "frame"
    /\ out_i < Len(data_out)
    /\ rb["resampler_output"] = <<>>
    /\ Somes(out_pops) # <<>>

(***************************************************************************)
(* C7.  Once the pipeline is dropped every run flag, 3 for SelfListen and  *)
(* 5 for P2P, is false; a run flag changes only in a step of the drop,     *)
(* only from true to false, and no step of a worker or callback writes it. *)
(***************************************************************************)
C7_RunFlagsOnlyCleared ==
    [][/\ Dropped' => \A w \in Workers(kind) : ~run'[w]
       /\ DOMAIN run' = Workers(kind)
       /\ Cardinality(DOMAIN run') = IF kind = "SelfListen" THEN 3 ELSE 5
       /\ \A w \in Workers(kind) :
            run'[w] # run[w] =>
                /\ run[w] /\ ~run'[w]
                /\ owner' = owner + 1
                /\ DropOrder(kind)[owner'] = w
                /\ pc' = pc]_vars

\* A P2P pipeline was dropped while it was streaming.
C7_Witness ==
    /\ kind = "P2P"
    /\ Dropped
    /\ \A w \in Workers(kind) : ~run[w]
    /\ pushed["input"] # <<>>

Terminated(w) == pc[w] \in {"done", "panicked"}

\* An upper bound on the steps worker w still takes once its flag is false.
StepsToExit(w) ==
    LET n == Len(scratch[w])
        frame == CASE w \in Resamplers -> ChunkSize * WorkerChannels
                   [] w = "denoise" -> FrameSize * WorkerChannels
                   [] w = "encoder" -> OpusFrameSize
                   [] OTHER -> 0
        after == CASE w \in Resamplers -> 2 * ProcessBufferLen * WorkerChannels
                   [] w = "denoise" -> 2 * FrameSize * WorkerChannels
                   [] w = "encoder" -> 1
                   [] OTHER -> 0
    IN CASE pc[w] \in {"done", "panicked"} -> 0
         [] pc[w] = "loop" -> 1
         [] pc[w] = "occupied_len" -> frame + after + 2
         [] pc[w] = "try_pop" -> (frame - n) + after + 1
         [] pc[w] = "is_full" -> 2 * n + 1
         [] pc[w] = "try_push" /\ w # "decoder" -> 2 * n
         [] pc[w] = "send" -> 2
         [] pc[w] = "recv" -> OpusFrameSize + 2
         [] pc[w] = "try_push" /\ w = "decoder" -> n + 1

(***************************************************************************)
(* C8.  After the drop every worker exits its loop under fair scheduling:  *)
(* its run flag is false, a worker that has not terminated always has an   *)
(* enabled step whatever the ring buffers and the socket hold, each of its *)
(* steps taken while the flag is false brings it closer to the exit, and   *)
(* it completes at most one frame after the flag became false.  A worker   *)
(* that panicked has terminated.                                           *)
(***************************************************************************)
C8_WorkersExitAfterDrop ==
    /\ [](\A w \in Workers(kind) :
            /\ Dropped => ~run[w]
            /\ ~Terminated(w) => ENABLED WorkerStep(w)
            /\ late_frames[w] <= 1)
    /\ [][\A w \in Workers(kind) :
            (~run[w] /\ (pc'[w] # pc[w] \/ scratch'[w] # scratch[w]))
                => StepsToExit(w)' < StepsToExit(w)]_vars

\* Every worker of a dropped P2P pipeline has exited, and one of them
\* completed a frame after its flag was stored false.
C8_Witness ==
    /\ kind = "P2P"
    /\ Dropped
    /\ \A w \in Workers(kind) : pc[w] = "done"
    /\ \E w \in Workers(kind) : late_frames[w] = 1

(***************************************************************************)
(* C9.  Teardown joins the workers: when the drop has completed, every     *)
(* worker thread of the pipeline has terminated.                           *)
(***************************************************************************)
C9_DropJoinsWorkers ==
    Dropped => \A w \in Workers(kind) : Terminated(w)

(***************************************************************************)
(* C10.  During the drop every run flag is stored false before a device    *)
(* stream is stopped, and the capture stream is stopped before the         *)
(* playback stream.                                                        *)
(***************************************************************************)
C10_FlagsThenCaptureThenPlayback ==
    /\ (\E s \in DOMAIN stream : stream[s] = "dropped") =>
           \A w \in Workers(kind) : ~run[w]
    /\ stream["output_stream"] = "dropped" => stream["input_stream"] = "dropped"

\* The capture stream of a P2P pipeline is stopped and the playback stream is
\* still playing.
C10_Witness ==
    /\ kind = "P2P"
    /\ stream["input_stream"] = "dropped"
    /\ stream["output_stream"] = "playing"

(***************************************************************************)
(* C11.  Dropping the pipeline closes its device streams in the reverse of *)
(* the order in which the constructor created them: a stream is closed     *)
(* only when every stream created after it is closed.                      *)
(***************************************************************************)
C11_StreamsClosedInReverse ==
    \A i, j \in 1..Len(StreamsCreated) :
        (i < j /\ stream[StreamsCreated[i]] = "dropped")
            => stream[StreamsCreated[j]] = "dropped"

(***************************************************************************)
(* C11, as the code has it.  Dropping the pipeline closes its device       *)
(* streams in the order in which the constructor created them: a stream is *)
(* closed only when every stream created before it is closed, and each     *)
(* stream is closed by the step of the drop that stands at its place in    *)
(* the order of creation.                                                  *)
(***************************************************************************)
C11_StreamsClosedInCreationOrder ==
    /\ \A i, j \in 1..Len(StreamsCreated) :
        (i < j /\ stream[StreamsCreated[j]] = "dropped")
            => stream[StreamsCreated[i]] = "dropped"
    /\ \A i \in 1..Len(StreamsCreated) :
        stream[StreamsCreated[i]] = "dropped"
            <=> owner >= Cardinality(Workers(kind)) + i

\* The stream SelfListen::new created first is closed, the one it created
\* last still plays.
C11_Witness ==
    /\ kind = "SelfListen"
    /\ stream[StreamsCreated[1]] = "dropped"
    /\ stream[StreamsCreated[Len(StreamsCreated)]] = "playing"

(***************************************************************************)
(* C12.  When the decoder has a decoded sample to push and its output ring *)
(* buffer is full, the sample is dropped: the buffer is unchanged, and the *)
(* decoder thread goes on to the next sample or the next datagram.         *)
(***************************************************************************)
C12_DecoderDropsOnFull ==
    [][(/\ kind = "P2P"
        /\ pc["decoder"] = "try_push"
        /\ IsFull(rb[Out("decoder")])
        /\ pc'["decoder"] # pc["decoder"] \/ scratch'["decoder"] # scratch["decoder"])
       => /\ rb'[Out("decoder")] = rb[Out("decoder")]
          /\ scratch'["decoder"] = Tail(scratch["decoder"])
          /\ pc'["decoder"] = IF scratch'["decoder"] = <<>> THEN "loop" ELSE "try_push"]_vars

(***************************************************************************)
(* C13.  A decode failure discards only the datagram that failed: when the *)
(* decoder receives a datagram that decode_float rejects, the datagram is  *)
(* consumed, no sample is pushed for it, and the decoder is back at the    *)
(* head of its loop, ready to receive the next datagram.                   *)
(***************************************************************************)
C13_DecodeFailureDiscardsDatagram ==
    [][(/\ kind = "P2P"
        /\ pc["decoder"] = "recv"
        /\ net # <<>>
        /\ DecodeFloat(Head(net))[1] = "Err"
        /\ pc'["decoder"] # pc["decoder"])
       => /\ net' = Tail(net)
          /\ pushed' = pushed
          /\ rb' = rb
          /\ pc'["decoder"] = "loop"]_vars

(***************************************************************************)
(* C14.  When the send of an encoded frame fails (the encoder leaves       *)
(* "send" and nothing reached a receive buffer that had room), the packet  *)
(* is dropped: the samples of the frame stay consumed and are not put back *)
(* or kept for a second send, the encoder does not terminate, and it is    *)
(* back at the head of its loop; a send never ends in a panic.             *)
(***************************************************************************)
C14_SendFailureDropsPacket ==
    [][(kind = "P2P" /\ pc["encoder"] = "send" /\ pc'["encoder"] # "send")
       => /\ pc'["encoder"] = "loop"
          /\ (net' = net /\ Len(net) < MaxNet) =>
                /\ scratch'["encoder"] = <<>>
                /\ rb' = rb
                /\ popped' = popped
                /\ pushed' = pushed
                /\ Len(popped'[In(kind, "encoder")]) % OpusFrameSize = 0]_vars

\* The encoder has consumed two frames and is back at the head of its loop;
\* no datagram is in flight and none was ever received: both sends failed.
C14_Witness ==
    /\ kind = "P2P"
    /\ Len(popped[In(kind, "encoder")]) = 2 * OpusFrameSize
    /\ pc["encoder"] = "loop"
    /\ net = <<>>
    /\ pc["decoder"] \in {"loop", "recv"}
    /\ scratch["decoder"] = <<>>
    /\ pushed[Out("decoder")] = <<>>

(***************************************************************************)
(* C15.  A failure of a statement of the constructor (no default config,   *)
(* a stream that cannot be built or played, a socket that cannot be bound  *)
(* or connected) is returned to the caller as an error value: the thread   *)
(* that calls SelfListen::new or P2P::new never panics in it.              *)
(***************************************************************************)
C15_NewReturnsErrors == pc["new"] # "panicked"

\* The values of a sequence.
Range(seq) == {seq[i] : i \in 1..Len(seq)}

(***************************************************************************)
(* C16.  The denoise stage discards the output of the first frame it       *)
(* processes and emits every later one.  Whenever it is between two        *)
(* frames, having consumed k frames of FrameSize samples, it has offered   *)
(* to its output ring buffer (pushed, or dropped because the buffer was    *)
(* full) exactly the samples of max(k - 1, 0) frames, namely those of the  *)
(* frames 2..k; while it emits a frame, what it has offered and what it    *)
(* still holds add up to k - 1 frames; and the warm-up flag is set exactly *)
(* as long as no frame was consumed.                                       *)
(***************************************************************************)
C16_DenoiseSkipsFirstFrame ==
    LET frame == FrameSize * WorkerChannels
        input == popped[In(kind, "denoise")]
        k == Len(input) \div frame
        offered == Len(pushed[Out("denoise")]) + Len(dropped[Out("denoise")])
    IN /\ pc["denoise"] \in {"unspawned", "loop", "occupied_len", "done"} =>
            /\ Len(input) % frame = 0
            /\ offered = (IF k = 0 THEN 0 ELSE k - 1) * frame
            /\ Range(pushed[Out("denoise")]) \cup Range(dropped[Out("denoise")])
                   = {input[i] : i \in (frame + 1)..Len(input)}
            /\ denoise_first <=> k = 0
       /\ pc["denoise"] \in {"is_full", "try_push"} =>
            /\ ~denoise_first
            /\ k >= 2
            /\ offered + Len(scratch["denoise"]) = (k - 1) * frame
       /\ pc["denoise"] = "try_pop" =>
            /\ offered = (IF k = 0 THEN 0 ELSE k - 1) * frame
            /\ denoise_first <=> k = 0

\* The stage has consumed three frames or more and is between two frames; of
\* the frames it emitted, a sample found the output ring buffer full.
C16_Witness ==
    /\ pc["denoise"] = "loop"
    /\ Len(popped[In(kind, "denoise")]) >= 3 * FrameSize * WorkerChannels
    /\ dropped[Out("denoise")] # <<>>
    /\ pushed[Out("denoise")] # <<>>

(***************************************************************************)
(* C17: interleave after deinterleave is the identity.  For every channel  *)
(* count C >= 1 and every interleaved buffer b of length N * C,            *)
(* deinterleaving b into C rows of N slots and interleaving the result     *)
(* gives b back; the intermediate value has C rows of N samples each.      *)
(***************************************************************************)
C17_InterleaveAfterDeinterleave ==
    call.start = "interleaved" =>
        /\ call.done >= 1 =>
              /\ Len(call.original) = call.channels * (Len(call.original) \div call.channels)
              /\ IF call.done = 1
                    THEN /\ Len(call.value) = call.channels
                         /\ \A c \in 1..call.channels :
                               Len(call.value[c]) = Len(call.original) \div call.channels
                    ELSE call.value = call.original

\* a buffer of three channels and two frames whose samples differ has made
\* the round trip
C17_Witness ==
    /\ call.start = "interleaved"
    /\ call.done = 2
    /\ call.channels = 3
    /\ Len(call.original) = 6
    /\ call.original[1] # call.original[2]
    /\ call.original[2] # call.original[4]

(***************************************************************************)
(* C18: deinterleave after interleave is the identity.  For every planar   *)
(* buffer p with C >= 1 rows of equal length N, interleaving p (N * C      *)
(* samples) and deinterleaving the result with C channels gives p back.    *)
(***************************************************************************)
C18_DeinterleaveAfterInterleave ==
    call.start = "planar" =>
        /\ call.done = 1 =>
              Len(call.value) = call.channels * Len(call.original[1])
        /\ call.done = 2 => call.value = call.original

\* a planar buffer of three rows of two samples, with rows and columns that
\* differ, has made the round trip
C18_Witness ==
    /\ call.start = "planar"
    /\ call.done = 2
    /\ call.channels = 3
    /\ Len(call.original[1]) = 2
    /\ call.original[1][1] # call.original[1][2]
    /\ call.original[1][2] # call.original[2][1]

\* seq is strictly increasing: it has no duplicate and nothing out of order.
Increasing(seq) == \A i, j \in 1..Len(seq) : i < j => seq[i] < seq[j]

(***************************************************************************)
(* C19.  Sample order is preserved end to end in SelfListen.  Capture's    *)
(* k-th mono sample is the value k and every DSP step keeps the order of   *)
(* its frame, so: the samples playback has consumed are strictly           *)
(* increasing values among 1..captured, that is a subsequence of capture's *)
(* samples in capture's order, with no duplicate; the same holds for what  *)
(* was pushed to, popped from and dropped at every ring buffer of the      *)
(* chain; what a stage pushed or dropped at its output it had popped from  *)
(* its input, and no sample is both pushed and dropped; the samples one    *)
(* playback callback got are the tail of what playback consumed.           *)
(***************************************************************************)
C19_OrderPreservedEndToEnd ==
    kind = "SelfListen" =>
        /\ Increasing(popped["resampler_output"])
        /\ Range(popped["resampler_output"]) \subseteq 1..captured
        /\ IsSuffix(Somes(out_pops), popped["resampler_output"])
        /\ \A r \in RingBuffers(kind) :
              /\ Increasing(pushed[r])
              /\ Increasing(popped[r])
              /\ Increasing(dropped[r])
              /\ Increasing(rb[r])
              /\ Range(pushed[r]) \cap Range(dropped[r]) = {}
              /\ Range(popped[r]) \cup Range(rb[r]) = Range(pushed[r])
        /\ Range(pushed["input"]) \cup Range(dropped["input"]) \subseteq 1..captured
        /\ \A w \in Workers(kind) :
              Range(pushed[Out(w)]) \cup Range(dropped[Out(w)])
                  \subseteq Range(popped[In(kind, w)])

\* Playback has consumed two samples or more; the first sample of capture
\* was lost to the warm-up discard and a later one to a full ring buffer, so
\* what playback consumed is a proper subsequence of what capture produced.
C19_Witness ==
    /\ kind = "SelfListen"
    /\ Len(popped["resampler_output"]) >= 2
    /\ popped["resampler_output"][1] > 1
    /\ ~denoise_first
    /\ \E r \in RingBuffers(kind) : dropped[r] # <<>>

(***************************************************************************)
(* C20.  No device callback ever suspends and no stage waits for free      *)
(* space in its output ring buffer, so a slow or stopped consumer never    *)
(* stalls its producer: a callback that was entered can always take its    *)
(* next step; a worker that has not left its loop on its run flag can      *)
(* always take its next step, whatever its output ring buffer holds (with  *)
(* too little input, or no datagram, that step is the poll that returns to *)
(* the head of the loop); and a worker that has a sample for a full output *)
(* ring buffer gets rid of the sample in its next step.                    *)
(***************************************************************************)
C20_NoStageWaitsForOutputRoom ==
    /\ pc["capture"] # "idle" => ENABLED CaptureStep
    /\ pc["playback"] # "idle" => ENABLED PlaybackStep
    /\ \A w \in Workers(kind) :
          /\ pc[w] # "done" => ENABLED WorkerStep(w)
          /\ (pc[w] \in {"is_full", "try_push"} /\ IsFull(rb[Out(w)]))
                => ENABLED (WorkerStep(w) /\ scratch'[w] = Tail(scratch[w])
                                         /\ pc'[w] # "panicked")

C22_SocketAsCallerAsked ==
    kind = "P2P" =>
        /\ socket.port # 0 => socket.port = socket.local_port
        /\ socket.peer # "none" => socket.peer = socket.peer_endpoint
        /\ socket.sent_to \subseteq {socket.peer_endpoint}

(***************************************************************************)
(* C23.  In P2P the decoder pushes samples only in response to a received  *)
(* datagram.  The decoder's frame buffer gets samples only in a step that  *)
(* takes a datagram off the socket, and they are the samples that datagram *)
(* carries; the ring buffer after the decoder grows only by the head of    *)
(* that frame buffer; the decoder never holds or pushed more samples than  *)
(* the send attempts account for, nor a sample the encoder did not         *)
(* consume.  For a lost or absent packet nothing is produced: as long as   *)
(* the decoder has pushed nothing, every pop of the playback callback      *)
(* finds the buffer empty and every slot it wrote is 0.                    *)
(***************************************************************************)
C23_DecoderPushesOnlyOnDatagram ==
    /\ [](kind = "P2P" =>
            /\ Len(pushed["decoder"]) + Len(scratch["decoder"])
                   <= socket.sends * OpusFrameSize
            /\ Range(pushed["decoder"]) \cup Range(scratch["decoder"])
                   \subseteq Range(popped[In(kind, "encoder")])
            /\ pushed["decoder"] = <<>> =>
                  /\ \A i \in 1..Len(out_pops) : out_pops[i] = <<"None">>
                  /\ \A i \in 1..out_i : data_out[i] = EQUILIBRIUM)
    /\ [][(kind = "P2P" /\ scratch'["decoder"] # scratch["decoder"]
             /\ Len(scratch'["decoder"]) >= Len(scratch["decoder"]))
          => /\ pc["decoder"] = "recv"
             /\ net # <<>>
             /\ net' = Tail(net)
             /\ <<"Ok", scratch'["decoder"]>> = DecodeFloat(Head(net))]_vars
    /\ [][(kind = "P2P" /\ pushed'["decoder"] # pushed["decoder"])
          => /\ pc["decoder"] = "try_push"
             /\ pushed'["decoder"] = Append(pushed["decoder"], Head(scratch["decoder"]))
             /\ scratch'["decoder"] = Tail(scratch["decoder"])]_vars

\* A frame was sent and lost, the decoder polls an empty socket and has
\* pushed nothing, and a playback callback has filled its buffer with zeros.
C23_Witness ==
    /\ kind = "P2P"
    /\ socket.sends >= 1
    /\ net = <<>>
    /\ pushed["decoder"] = <<>>
    /\ scratch["decoder"] = <<>>
    /\ pc["decoder"] = "recv"
    /\ pc["playback"] = "frame"
    /\ out_i = Len(data_out)
    /\ Len(out_pops) >= 2

(***************************************************************************)
(* C24.  A resampler stage processes only when its input ring buffer holds *)
(* a whole chunk (ChunkSize samples, 960 in the program) and then removes  *)
(* exactly one chunk.  Outside its drain loop the number of samples it has *)
(* removed from its input is a multiple of ChunkSize; inside the loop it   *)
(* is that multiple plus the samples of the chunk taken so far, the input  *)
(* holds at least the rest of the chunk, so no try_pop finds the buffer    *)
(* short; and every removal happens inside the loop.                       *)
(***************************************************************************)
C24_ResamplerDrainsWholeChunks ==
    /\ [](\A w \in Resamplers :
            LET n == Len(popped[In(kind, w)])
                chunk == ChunkSize * WorkerChannels
            IN /\ pc[w] # "panicked"
               /\ pc[w] # "try_pop" => n % chunk = 0
               /\ pc[w] = "try_pop" =>
                     /\ Len(scratch[w]) < chunk
                     /\ n % chunk = Len(scratch[w])
                     /\ OccupiedLen(rb[In(kind, w)]) >= chunk - Len(scratch[w]))
    /\ [][\A w \in Resamplers :
            popped'[In(kind, w)] # popped[In(kind, w)]
                => /\ pc[w] = "try_pop"
                   /\ Len(popped'[In(kind, w)]) = Len(popped[In(kind, w)]) + 1
                   /\ pc'[w] \in {"try_pop", "is_full"}
                   /\ pc'[w] = "is_full" <=>
                         Len(popped'[In(kind, w)]) % (ChunkSize * WorkerChannels) = 0]_vars

\* The playback-side resampler is in the middle of its second chunk and its
\* input holds exactly the rest of that chunk.
C24_Witness ==
    /\ pc["resampler_output"] = "try_pop"
    /\ Len(popped[In(kind, "resampler_output")]) > ChunkSize * WorkerChannels
    /\ scratch["resampler_output"] # <<>>
    /\ Len(rb[In(kind, "resampler_output")])
          = ChunkSize * WorkerChannels - Len(scratch["resampler_output"])

\* Worker w has taken a step.
Stepped(w) == pc'[w] # pc[w] \/ scratch'[w] # scratch[w]

(***************************************************************************)
(* C25.  When a resampler pushes an output frame into a ring buffer that   *)
(* is or becomes full, exactly the samples that find it full are dropped.  *)
(* A sample that finds the buffer full is dropped alone and the buffer is  *)
(* left as it is; a sample that finds room is appended behind the samples  *)
(* already queued; the buffer changes only by an append at its end or by a *)
(* pop at its head, so nothing queued is evicted or overwritten; the stage *)
(* never panics and while it emits a frame its next step is enabled; after *)
(* the last sample of the frame it is back at the head of its loop; and    *)
(* between frames every sample it produced was either pushed or dropped.   *)
(***************************************************************************)
C25_ResamplerDropsNewest ==
    /\ [](\A w \in Resamplers :
            /\ pc[w] # "panicked"
            /\ pc[w] \in {"is_full", "try_push"} =>
                  /\ scratch[w] # <<>>
                  /\ ENABLED ResamplerStep(w)
            /\ pc[w] \in {"loop", "occupied_len", "try_pop"} =>
                  Len(pushed[Out(w)]) + Len(dropped[Out(w)])
                    = (Len(popped[In(kind, w)]) \div (ChunkSize * WorkerChannels))
                        * ProcessBufferLen * WorkerChannels)
    /\ [][\A w \in Resamplers :
            LET r == Out(w) IN
            /\ (pc[w] = "is_full" /\ Stepped(w) /\ IsFull(rb[r]))
                  => /\ rb'[r] = rb[r]
                     /\ pushed'[r] = pushed[r]
                     /\ dropped'[r] = Append(dropped[r], Head(scratch[w]))
                     /\ scratch'[w] = Tail(scratch[w])
                     /\ pc'[w] = IF scratch'[w] = <<>> THEN "loop" ELSE "is_full"
            /\ (pc[w] = "is_full" /\ Stepped(w) /\ ~IsFull(rb[r]))
                  => /\ pc'[w] = "try_push"
                     /\ UNCHANGED <<rb, pushed, dropped, scratch>>
            /\ (pc[w] = "try_push" /\ Stepped(w))
                  => /\ rb'[r] = Append(rb[r], Head(scratch[w]))
                     /\ pushed'[r] = Append(pushed[r], Head(scratch[w]))
                     /\ dropped'[r] = dropped[r]
                     /\ scratch'[w] = Tail(scratch[w])
                     /\ pc'[w] = IF scratch'[w] = <<>> THEN "loop" ELSE "is_full"
            /\ \/ IsPrefix(rb[r], rb'[r])
               \/ rb[r] # <<>> /\ rb'[r] = Tail(rb[r])]_vars

\* A resampler dropped a sample on a full ring buffer, pushed a later one
\* after the consumer made room, and is back at the head of its loop.
C25_Witness ==
    \E w \in Resamplers :
        /\ pc[w] = "loop"
        /\ dropped[Out(w)] # <<>>
        /\ pushed[Out(w)] # <<>>
        /\ dropped[Out(w)][Len(dropped[Out(w)])] < pushed[Out(w)][Len(pushed[Out(w)])]

(***************************************************************************)
(* C26.  The capture callback pushes exactly one mono sample per chunk of  *)
(* InChannels interleaved input samples, the arithmetic mean of the chunk. *)
(* A step that pushes appends one sample, takes one chunk off the input,   *)
(* and the sample times InChannels is the sum of the chunk; every chunk    *)
(* dealt with was either pushed or dropped, once; the pushed samples are   *)
(* in chunk order; and as long as nothing was dropped (there was room for  *)
(* every chunk) the N chunks dealt with gave exactly the N means 1 .. N in *)
(* that order.                                                             *)
(***************************************************************************)
C26_CaptureDownmix ==
    /\ [](pc["capture"] # "panicked" =>
            /\ Len(pushed["input"]) + Len(dropped["input"]) = Visited
            /\ Range(pushed["input"]) \cup Range(dropped["input"]) = 1..Visited
            /\ Increasing(pushed["input"])
            /\ \A i \in 1..Len(pushed["input"]) :
                  /\ pushed["input"][i] * InChannels = Sum(DeviceChunk(pushed["input"][i]))
                  /\ Len(DeviceChunk(pushed["input"][i])) = InChannels
            /\ dropped["input"] = <<>> => pushed["input"] = [i \in 1..Visited |-> i])
    /\ [][pushed'["input"] # pushed["input"]
            => /\ pc["capture"] = "try_push"
               /\ data_in # <<>>
               /\ data_in' = Tail(data_in)
               /\ Len(pushed'["input"]) = Len(pushed["input"]) + 1
               /\ IsPrefix(pushed["input"], pushed'["input"])
               /\ pushed'["input"][Len(pushed'["input"])] * InChannels
                     = Sum(Head(data_in))
               /\ rb'["input"] = Append(rb["input"], pushed'["input"][Len(pushed'["input"])])]_vars

\* The callbacks have returned, every chunk the device delivered found room,
\* and the means of all of them were pushed in order.
C26_Witness ==
    /\ pc["capture"] = "idle"
    /\ captured = MaxCapture
    /\ dropped["input"] = <<>>
    /\ pushed["input"] = [i \in 1..MaxCapture |-> i]

(***************************************************************************)
(* C27.  The encoder removes exactly OpusFrameSize samples (960 in the     *)
(* program) from its input ring buffer per encoded frame and attempts      *)
(* exactly one send per frame.  Between frames the number of send attempts *)
(* equals the number of whole frames removed and the number of samples     *)
(* removed is a multiple of OpusFrameSize; with a whole frame in hand and  *)
(* its send still to come, the attempts are one behind; while it drains a  *)
(* frame the input holds at least the rest of that frame, so no try_pop    *)
(* finds the buffer short; a step that attempts a send attempts one, and   *)
(* every removal happens inside the drain loop.                            *)
(***************************************************************************)
C27_EncoderOneSendPerFrame ==
    /\ [](kind = "P2P" =>
            LET r == In(kind, "encoder")
                n == Len(popped[r])
                at == pc["encoder"]
            IN /\ at # "panicked"
               /\ at = "send" =>
                     /\ Len(scratch["encoder"]) = OpusFrameSize
                     /\ n % OpusFrameSize = 0
                     /\ socket.sends + 1 = n \div OpusFrameSize
               /\ at = "try_pop" =>
                     /\ Len(scratch["encoder"]) < OpusFrameSize
                     /\ n % OpusFrameSize = Len(scratch["encoder"])
                     /\ socket.sends = n \div OpusFrameSize
                     /\ OccupiedLen(rb[r]) >= OpusFrameSize - Len(scratch["encoder"])
               /\ at \notin {"send", "try_pop"} =>
                     /\ n % OpusFrameSize = 0
                     /\ socket.sends = n \div OpusFrameSize)
    /\ [][kind = "P2P" =>
            /\ socket'.sends # socket.sends =>
                  /\ pc["encoder"] = "send"
                  /\ socket'.sends = socket.sends + 1
                  /\ pc'["encoder"] = "loop"
            /\ popped'[In(kind, "encoder")] # popped[In(kind, "encoder")] =>
                  /\ pc["encoder"] = "try_pop"
                  /\ Len(popped'[In(kind, "encoder")])
                        = Len(popped[In(kind, "encoder")]) + 1]_vars

\* The encoder has consumed two frames and attempted two sends; one of the
\* two frames did not arrive (its send failed or the receive buffer was full).
C27_Witness ==
    /\ kind = "P2P"
    /\ pc["encoder"] = "loop"
    /\ Len(popped[In(kind, "encoder")]) = 2 * OpusFrameSize
    /\ socket.sends = 2
    /\ Len(pushed["decoder"]) + Len(scratch["decoder"]) + Len(net) * OpusFrameSize
          = OpusFrameSize

(***************************************************************************)
(* C28.  The failure of one worker stage does not propagate.  When a       *)
(* worker has ended on a runtime error, no other worker is ended by an     *)
(* error, every other worker that has not left its loop has its next step  *)
(* enabled, and neither device callback has panicked or is stuck: capture  *)
(* goes on (dropping on a full buffer) and playback goes on (writing 0 on  *)
(* an empty one).                                                          *)
(***************************************************************************)
C28_FailureDoesNotPropagate ==
    \A f \in Workers(kind) :
        pc[f] = "panicked" =>
            /\ \A w \in Workers(kind) \ {f} :
                  /\ pc[w] # "panicked"
                  /\ pc[w] # "done" => ENABLED WorkerStep(w)
            /\ pc["capture"] # "panicked"
            /\ pc["playback"] # "panicked"
            /\ pc["capture"] # "idle" => ENABLED CaptureStep
            /\ pc["playback"] # "idle" => ENABLED PlaybackStep

(***************************************************************************)
(* C29.  In both constructors every worker thread has been spawned before  *)
(* either device stream is played, and capture is played before playback.  *)
(* While a stream is playing no worker is unspawned; a statement that      *)
(* plays a stream finds every worker spawned; the playback stream plays    *)
(* only while the capture stream plays; and no sample was captured or      *)
(* pushed into the first ring buffer while a worker was unspawned.         *)
(***************************************************************************)
C29_WorkersBeforeStreams ==
    /\ [](/\ (\E s \in DOMAIN stream : stream[s] = "playing")
               => \A w \in Workers(kind) : pc[w] # "unspawned"
          /\ stream["output_stream"] = "playing" => stream["input_stream"] = "playing"
          /\ (captured > 0 \/ pushed["input"] # <<>> \/ pc["capture"] # "idle"
                 \/ pc["playback"] # "idle")
               => \A w \in Workers(kind) : pc[w] # "unspawned")
    /\ [][\A s \in DOMAIN stream :
            (stream'[s] = "playing" /\ stream[s] # "playing")
                => /\ \A w \in Workers(kind) : pc[w] # "unspawned"
                   /\ stream[s] = "built"
                   /\ s = "output_stream" => stream["input_stream"] = "playing"]_vars

\* P2P::new has returned with both streams playing and all five workers
\* spawned, and the capture callback has delivered samples.
C29_Witness ==
    /\ kind = "P2P"
    /\ pc["new"] = "returned"
    /\ \A s \in DOMAIN stream : stream[s] = "playing"
    /\ \A w \in Workers(kind) : pc[w] \notin {"unspawned", "panicked"}
    /\ pushed["input"] # <<>>

\* The stage of its life a worker is in: 0 Created (not spawned), 1 Running,
\* 2 Stopping (its run flag is false, it has not left its loop yet),
\* 3 Stopped (it left its loop on the flag, or a panic ended it).
WorkerPhase(w) ==
    CASE pc[w] = "unspawned" -> 0
      [] pc[w] \in {"done", "panicked"} -> 3
      [] ~run[w] -> 2
      [] OTHER -> 1

\* The same for a device stream and its callback: 0 not built, 1 built,
\* 2 playing, 3 dropped.
StreamPhase(s) ==
    CASE stream[s] = "unbuilt" -> 0
      [] stream[s] = "built" -> 1
      [] stream[s] = "playing" -> 2
      [] stream[s] = "dropped" -> 3

Chains(k) ==
    IF k = "SelfListen"
    THEN {<<"capture", "resampler_input", "denoise", "resampler_output", "playback">>}
    ELSE {<<"capture", "resampler_input", "denoise", "encoder">>,
          <<"decoder", "resampler_output", "playback">>}

\* The threads that hold the producer handle of ring buffer r.
Producers(k, r) ==
    {t \in Threads(k) :
        \/ t = "capture" /\ r = "input"
        \/ t \in Workers(k) \ {"encoder"} /\ Out(t) = r}

\* The threads that hold the consumer handle of ring buffer r.
Consumers(k, r) ==
    {t \in Threads(k) :
        \/ t = "playback" /\ r = "resampler_output"
        \/ t \in Workers(k) \ {"decoder"} /\ In(k, t) = r}

\* Thread t has taken a step.
Acted(t) ==
    \/ pc'[t] # pc[t]
    \/ t \in Workers(kind) /\ scratch'[t] # scratch[t]
    \/ t = "capture" /\ data_in' # data_in
    \/ t = "playback" /\ (out_i' # out_i \/ data_out' # data_out)

\* The ring buffers of a pipeline of kind k link the stages of its chains,
\* one per pair of neighbours, each with one producer and one consumer.
Wired(k) ==
    /\ \A r \in RingBuffers(k) :
          /\ Cardinality(Producers(k, r)) = 1
          /\ Cardinality(Consumers(k, r)) = 1
          /\ Producers(k, r) # Consumers(k, r)
    /\ \A chain \in Chains(k) :
          \A i \in 1..(Len(chain) - 1) :
              Cardinality({r \in RingBuffers(k) :
                              /\ Producers(k, r) = {chain[i]}
                              /\ Consumers(k, r) = {chain[i + 1]}}) = 1
    /\ Cardinality(RingBuffers(k))
          = Cardinality({<<chain, i>> \in Chains(k) \X (1..4) : i < Len(chain)})

(***************************************************************************)
(* C31.  In each pipeline every ring buffer has exactly one producing and  *)
(* exactly one consuming stage, and these form the documented chains:      *)
(* every two neighbours of a chain are linked by one ring buffer, which    *)
(* the first produces into and the second consumes from, and there are no  *)
(* other ring buffers (4 in SelfListen, 5 in P2P).  No stage accesses a    *)
(* ring buffer it is not an endpoint of: a step that appends to a ring     *)
(* buffer, or discards a sample because it is full, is a step of its       *)
(* producer; a step that removes from it is a step of its consumer; and no *)
(* step changes a ring buffer in any other way.  The wiring is that of the *)
(* pipeline's kind, fixed at construction: no step changes the kind or the *)
(* set of ring buffers.                                                    *)
(***************************************************************************)
C31_OneProducerOneConsumer ==
    /\ Wired(kind)
    /\ DOMAIN rb = RingBuffers(kind)
    /\ [][kind' = kind /\ DOMAIN rb' = DOMAIN rb]_vars
    /\ [][rb' # rb \/ dropped' # dropped =>
            \A r \in RingBuffers(kind) :
                /\ (pushed'[r] # pushed[r] \/ dropped'[r] # dropped[r]) =>
                      /\ \A t \in Producers(kind, r) : Acted(t)
                      /\ \A t \in Threads(kind) \ Producers(kind, r) : ~Acted(t)
                /\ popped'[r] # popped[r] =>
                      /\ \A t \in Consumers(kind, r) : Acted(t)
                      /\ \A t \in Threads(kind) \ Consumers(kind, r) : ~Acted(t)
                /\ rb'[r] # rb[r] =>
                      \/ /\ rb'[r] = Append(rb[r], pushed'[r][Len(pushed'[r])])
                         /\ Len(pushed'[r]) = Len(pushed[r]) + 1
                         /\ popped'[r] = popped[r]
                      \/ /\ rb[r] # <<>>
                         /\ rb'[r] = Tail(rb[r])
                         /\ popped'[r] = Append(popped[r], Head(rb[r]))
                         /\ pushed'[r] = pushed[r]]_vars

\* In a P2P pipeline samples went through all five ring buffers while every
\* stage was alive, and the playback callback holds one it has just removed.
C31_Witness ==
    /\ kind = "P2P"
    /\ \A r \in RingBuffers(kind) : popped[r] # <<>>
    /\ \A t \in Threads(kind) : pc[t] # "panicked"
    /\ pc["playback"] = "frame"
    /\ Somes(out_pops) # <<>>

\* The samples a worker removes from its input for one frame.
FrameLen(w) ==
    CASE w \in Resamplers -> ChunkSize * WorkerChannels
      [] w = "denoise" -> FrameSize * WorkerChannels
      [] w = "encoder" -> OpusFrameSize

\* The stages that test is_full() before try_push, and those that test
\* occupied_len() before a run of try_pop.
Checkers(k) == {"capture"} \cup Resamplers \cup {"denoise"}

Drainers(k) == Resamplers \cup {"denoise"} \cup (Workers(k) \cap {"encoder"})

\* The ring buffer a stage pushes into.
OutOf(t) == IF t = "capture" THEN "input" ELSE Out(t)

(***************************************************************************)
(* C33.  The check-then-act sequences on the ring buffers are free of      *)
(* races.  In the capture callback, the resamplers and the denoise thread, *)
(* a try_push reached after is_full() returned false finds room, whatever  *)
(* the consumer did in between, and the step appends the sample.  In the   *)
(* resamplers, the denoise thread and the encoder, after occupied_len()    *)
(* was at least N the input holds, before each of the N calls of try_pop,  *)
(* at least the samples still to be taken, whatever the producer did in    *)
(* between, and each call removes one sample.  None of these stages ends   *)
(* in a failed expect.                                                     *)
(***************************************************************************)
C33_CheckThenActRaceFree ==
    /\ [](/\ \A t \in Checkers(kind) :
                /\ pc[t] # "panicked"
                /\ pc[t] = "try_push" => CanPush(rb[OutOf(t)])
          /\ \A w \in Drainers(kind) :
                /\ pc[w] # "panicked"
                /\ pc[w] = "try_pop" =>
                      /\ Len(scratch[w]) < FrameLen(w)
                      /\ OccupiedLen(rb[In(kind, w)]) >= FrameLen(w) - Len(scratch[w])
                      /\ TryPop(rb[In(kind, w)])[1] = "Some")
    /\ [][pushed' # pushed \/ popped' # popped \/ pc' # pc =>
            /\ \A t \in Checkers(kind) :
                  (pc[t] = "try_push" /\ Acted(t)) =>
                      /\ Len(pushed'[OutOf(t)]) = Len(pushed[OutOf(t)]) + 1
                      /\ rb'[OutOf(t)] = Append(rb[OutOf(t)],
                                                pushed'[OutOf(t)][Len(pushed'[OutOf(t)])])
            /\ \A w \in Drainers(kind) :
                  (pc[w] = "try_pop" /\ Acted(w)) =>
                      /\ popped'[In(kind, w)] = Append(popped[In(kind, w)], Head(rb[In(kind, w)]))
                      /\ rb'[In(kind, w)] = Tail(rb[In(kind, w)])]_vars

\* The two endpoints of a ring buffer are both between check and act: the
\* denoise thread was told there is room and is about to push into a buffer
\* with one free slot, while the encoder is half-way through the frame it
\* is removing from the same buffer.
C33_Witness ==
    /\ kind = "P2P"
    /\ pc["denoise"] = "try_push"
    /\ Len(rb["denoise"]) = Capacity - 1
    /\ pc["encoder"] = "try_pop"
    /\ scratch["encoder"] # <<>>

(***************************************************************************)
(* C34.  When SelfListen::new or P2P::new fails part-way, no worker thread *)
(* of the failed construction keeps running: every worker that was spawned *)
(* has left its loop, or its run flag is false so that it leaves the loop  *)
(* at its next load of the flag.                                           *)
(***************************************************************************)
C34_FailedNewStopsWorkers ==
    pc["new"] = "panicked" =>
        \A w \in Workers(kind) :
            \/ pc[w] \in {"unspawned", "done", "panicked"}
            \/ ~run[w]

(***************************************************************************)
(* Fair scheduling.  The workers are operating-system threads: a worker    *)
(* that can take a step is eventually given the processor.                 *)
(***************************************************************************)
FairWorkers(k) == \A w \in Workers(k) : WF_vars(WorkerStep(w))

\* The SelfListen pipeline and its drop, the workers scheduled fairly.
SpecFair == Spec /\ FairWorkers("SelfListen")

\* The device stream that owns the closure of a callback.
StreamOf(c) == IF c = "capture" THEN "input_stream" ELSE "output_stream"

\* Thread t still owns the ring buffer handles that were moved into it: a
\* callback's closure until its stream is dropped, a worker's closure until
\* the thread has returned or unwound.
Holds(t) ==
    IF t \in Callbacks THEN stream[StreamOf(t)] # "dropped" ELSE ~Terminated(t)

\* Both handles of ring buffer r are dropped: its memory is freed.
Released(r) ==
    \A t \in Producers(kind, r) \cup Consumers(kind, r) : ~Holds(t)

MaxRound == 1

\* The device has delivered a round and goes on with the next one.
DeviceGoesOn ==
    /\ stream["input_stream"] = "playing"
    /\ pc["capture"] = "idle"
    /\ limit.rounds
    /\ captured = limit.capture
    /\ captured' = 0
    /\ UNCHANGED <<owner_vars, rb, pc, scratch, denoise_first, data_in,
                   data_out, out_i, resampled, net, pushed, dropped, popped,
                   out_pops, late_frames>>

InitFlow == InitOn("SelfListen", Rounds(MaxRound, MaxFramesAll))

NextFlow ==
    \/ CaptureStep
    \/ DeviceGoesOn
    \/ PlaybackStep
    \/ \E w \in Resamplers : ResamplerStep(w)
    \/ DenoiseStep

\* The audio subsystem keeps calling both callbacks, and a callback that
\* was called runs to its end.
FairCallbacks ==
    /\ WF_vars(CaptureStep)
    /\ WF_vars(DeviceGoesOn)
    /\ WF_vars(PlaybackStep)

SpecFlow ==
    InitFlow /\ [][NextFlow]_vars /\ FairWorkers("SelfListen") /\ FairCallbacks

\* The playback callback has just removed a sample from its ring buffer.
RealPop ==
    /\ pc["playback"] = "frame"
    /\ out_pops # <<>>
    /\ out_pops[Len(out_pops)][1] = "Some"

\* Thread t has taken a step, or the capture device has gone on.
Moved(t) == Acted(t) \/ (t = "capture" /\ captured' # captured)

\* Worker w has a frame in hand, or finds one in its input ring buffer.
Productive(w) ==
    \/ pc[w] \in {"try_pop", "is_full", "try_push"}
    \/ OccupiedLen(rb[In(kind, w)]) >= FrameLen(w)

\* The steps worker w takes from the head of its loop to its first push.
Turn(w) == FrameLen(w) + 4

\* The steps a worker that is Productive takes to its next push; Turn(w)
\* for a worker that is waiting for its input.
WorkerPos(w) ==
    CASE ~Productive(w) -> Turn(w)
      [] pc[w] = "try_push" -> 1
      [] pc[w] = "is_full" -> 2
      [] pc[w] = "try_pop" -> 2 + (FrameLen(w) - Len(scratch[w]))
      [] pc[w] = "occupied_len" -> Turn(w) - 1
      [] OTHER -> Turn(w)

\* The steps of the playback callback to its next try_pop.
PlaybackPos ==
    CASE pc["playback"] = "idle" -> 2
      [] out_i < Len(data_out) -> 1
      [] OTHER -> 3

\* The steps of the capture callback to its next try_push.
CapturePos ==
    CASE pc["capture"] = "try_push" -> 1
      [] pc["capture"] = "is_full" -> 2
      [] captured < limit.capture -> 3
      [] OTHER -> 4

\* The samples the consumer w of a ring buffer still waits for.
Missing(w) == FrameLen(w) - OccupiedLen(rb[In(kind, w)])

\* The stage whose next steps bring a sample closer to the playback: the
\* stage nearest to the playback that has something to work on.
Helpful ==
    CASE rb["resampler_output"] # <<>> -> "playback"
      [] Productive("resampler_output") -> "resampler_output"
      [] Productive("denoise") -> "denoise"
      [] Productive("resampler_input") -> "resampler_input"
      [] OTHER -> "capture"

\* How far the pipeline is from the next real pop, most significant first:
\* whether the playback's ring buffer is empty; the playback's steps to its
\* pop; then, for each stage the one after it waits for, its steps to its
\* next push and, before them, what the stage after it is still missing
\* (with the warm-up frame of the denoise thread).
Rank ==
    LET ro == "resampler_output"
        dn == "denoise"
        ri == "resampler_input"
        first == IF denoise_first THEN 1 ELSE 0
    IN CASE Helpful = "playback" -> <<0, PlaybackPos, 0, 0, 0, 0, 0, 0, 0, 0>>
         [] Helpful = ro -> <<1, 0, WorkerPos(ro), 0, 0, 0, 0, 0, 0, 0>>
         [] Helpful = dn ->
              <<1, 0, Turn(ro), Missing(ro), first, WorkerPos(dn), 0, 0, 0, 0>>
         [] Helpful = ri ->
              <<1, 0, Turn(ro), Missing(ro), first, Turn(dn),
                Missing(dn), WorkerPos(ri), 0, 0>>
         [] OTHER ->
              <<1, 0, Turn(ro), Missing(ro), first, Turn(dn),
                Missing(dn), Turn(ri), Missing(ri), CapturePos>>

\* The lexicographic order of two ranks.
Less(r, s) ==
    \E i \in 1..Len(r) : r[i] < s[i] /\ \A j \in 1..(i - 1) : r[j] = s[j]

(***************************************************************************)
(* C35.  In SelfListen, when the capture callback keeps delivering samples *)
(* and the workers and the playback callback are scheduled fairly, the     *)
(* playback callback eventually pops a real sample, and does so again and  *)
(* again: the pipeline never reaches a state in which a stage waits for    *)
(* ever, neither after the denoise thread has discarded its warm-up frame  *)
(* nor after samples were discarded on a full ring buffer.  In every state *)
(* in which the playback has not just popped a sample there is a helpful   *)
(* stage that can take a step; each step of the helpful stage brings the   *)
(* next real pop closer (the rank decreases), and no step of another stage *)
(* takes it farther or makes another stage the helpful one.  The rank is   *)
(* well-founded and a helpful stage is scheduled under the fairness of     *)
(* SpecFlow, so the real pop is reached from every state.                  *)
(***************************************************************************)
C35_SamplesReachPlayback ==
    /\ [](~RealPop =>
            \/ Helpful = "capture" /\ ENABLED (CaptureStep \/ DeviceGoesOn)
            \/ Helpful = "playback" /\ ENABLED PlaybackStep
            \/ Helpful \in Workers(kind) /\ ENABLED WorkerStep(Helpful))
    /\ [][(~RealPop /\ ~RealPop') =>
            /\ Less(Rank', Rank) \/ (Rank' = Rank /\ Helpful' = Helpful)
            /\ Moved(Helpful) => Less(Rank', Rank)]_vars

\* The playback callback pops a sample while the capture callback is about
\* to discard one on a full ring buffer and the denoise thread, past its
\* warm-up frame, has found its output ring buffer full.
C35_Witness ==
    /\ RealPop
    /\ ~denoise_first
    /\ pc["capture"] = "is_full"
    /\ IsFull(rb["input"])
    /\ pc["denoise"] = "is_full"
    /\ IsFull(rb["denoise"])

(***************************************************************************)
(* The application that holds the pipeline (voice_app.rs): its State, the  *)
(* handler update() and, for P2P, a holder of state.p2p.  The pipeline the *)
(* variables above describe is the one constructed last; of the pipelines  *)
(* before it the application remembers the worker threads that have not    *)
(* returned yet, with what their closures hold.                            *)
(***************************************************************************)
\* SelfListenPressed messages the application handles in a run
MaxPresses == 4
\* P2P pipelines a holder constructs in a run
MaxMade == 2
\* frames the capture device delivers to one pipeline the application holds
MaxHeard == 2
\* heap addresses
MaxAddress == 30

Addresses == 1..MaxAddress

\* Option::None
None == "None"

\* The devices the host offers.
Devices == {"device"}

PeerAddresses == {"", "peer"}

Tabs == {"Action", "Settings"}

\* Every variable but app.
program ==
    <<kind, rb, run, pc, scratch, denoise_first, data_in, data_out, out_i,
      resampled, net, stream, owner, limit, call, socket, captured, pushed,
      dropped, popped, out_pops, late_frames>>

\* State after init(): the host's default devices, if it has any; no
\* pipeline was constructed.
AppInit(input_device, output_device) ==
    [at |-> "idle", panic |-> "none", message |-> "none",
     input_device |-> input_device, output_device |-> output_device,
     self_listen |-> FALSE, p2p |-> FALSE,
     peer_address |-> "", active_tab |-> "Action",
     presses |-> 0, made |-> 0, ring |-> <<>>, flag |-> <<>>, old |-> {}]

\* The ring buffers in the order the constructor allocates them, and the
\* workers in the order it spawns them (each create_*_thread allocates the
\* worker's run flag).
RingOrder(k) ==
    IF k = "SelfListen"
    THEN <<"input", "resampler_input", "denoise", "resampler_output">>
    ELSE <<"input", "resampler_input", "denoise", "decoder", "resampler_output">>

IsWorker(s) == s \in Workers("P2P")

SpawnOrder(k) == SelectSeq(NewOrder(k), IsWorker)

\* What the closure of thread t of the pipeline constructed last holds: the
\* handles of its ring buffers and, for a worker, the clone of its run flag.
HeldBy(t) ==
    {app.ring[r] : r \in {q \in RingBuffers(kind) :
                             t \in Producers(kind, q) \cup Consumers(kind, q)}}
    \cup (IF t \in Workers(kind) THEN {app.flag[t]} ELSE {})

\* The workers of the pipeline constructed last that have not returned: what
\* is left of the pipeline once it is dropped.
Leftover ==
    {[of |-> app.made, worker |-> w, flag |-> app.flag[w], holds |-> HeldBy(w),
      socket |-> w \in {"encoder", "decoder"}] :
        w \in {v \in Workers(kind) : app.made > 0 /\ Holds(v)}}

\* An allocator that frees a run flag or a ring buffer as soon as the
\* pipeline is dropped, whatever its workers still hold.
LiveWhileOwned(a) ==
    /\ app.self_listen \/ app.p2p
    /\ \E t \in Threads(kind) : a \in HeldBy(t)

\* Address a is allocated: an Arc<AtomicBool> or a ring buffer lives as long
\* as a clone or a handle of it does, in the pipeline the State holds, in a
\* callback's closure or in a thread that has not returned.
Live(a) ==
    \/ \E o \in app.old : a \in o.holds
    \/ /\ app.made > 0
       /\ \/ (app.self_listen \/ app.p2p) /\ \E w \in Workers(kind) : a = app.flag[w]
          \/ \E t \in Threads(kind) : Holds(t) /\ a \in HeldBy(t)

\* The n lowest addresses of the set free.
RECURSIVE Lowest(_, _)
Lowest(n, free) ==
    IF n = 0 \/ free = {} THEN <<>>
    ELSE LET a == CHOOSE x \in free : \A y \in free : x <= y
         IN <<a>> \o Lowest(n - 1, free \ {a})

Index(seq, x) == CHOOSE i \in 1..Len(seq) : seq[i] = x

\* The application once a pipeline of kind k is constructed: HeapRb::new and
\* Arc::new return memory that is not allocated (here: the lowest such
\* addresses); the workers left of the pipeline before go on on their own.
Allocated(k) ==
    LET rings == RingOrder(k)
        flags == SpawnOrder(k)
        fresh == Lowest(Len(rings) + Len(flags), {a \in Addresses : ~Live(a)})
    IN [app EXCEPT
          !.made = @ + 1,
          !.ring = [r \in RingBuffers(k) |-> fresh[Index(rings, r)]],
          !.flag = [w \in Workers(k) |-> fresh[Len(rings) + Index(flags, w)]],
          !.old = @ \cup Leftover]

\* The constructor of a pipeline of kind k returns: the state Constructed,
\* reached in a step.
New(k, device) ==
    /\ kind' = k
    /\ limit' = device
    /\ call' = NoCall
    /\ socket' = IF k = "P2P" THEN Connected(Port, Loopback) ELSE NoSocket
    /\ rb' = [r \in RingBuffers(k) |-> <<>>]
    /\ run' = [w \in Workers(k) |-> TRUE]
    /\ pc' = [t \in Threads(k) \cup {"new"} |->
                 CASE t \in Callbacks -> "idle"
                   [] t = "new" -> "returned"
                   [] OTHER -> "loop"]
    /\ scratch' = [w \in Workers(k) |-> <<>>]
    /\ denoise_first' = TRUE
    /\ data_in' = <<>>
    /\ data_out' = <<>>
    /\ out_i' = 0
    /\ resampled' = EQUILIBRIUM
    /\ net' = <<>>
    /\ stream' = [s \in {"input_stream", "output_stream"} |-> "playing"]
    /\ owner' = 0
    /\ captured' = 0
    /\ pushed' = [r \in RingBuffers(k) |-> <<>>]
    /\ dropped' = [r \in RingBuffers(k) |-> <<>>]
    /\ popped' = [r \in RingBuffers(k) |-> <<>>]
    /\ out_pops' = <<>>
    /\ late_frames' = [w \in Workers(k) |-> 0]

\* The application panics with the message what: the process ends, and the
\* threads that have not returned end with it.
Panics(message, what) ==
    /\ app' = [app EXCEPT !.at = "crashed", !.panic = what, !.message = message,
                          !.old = {}]
    /\ pc' = [t \in DOMAIN pc |->
                IF t \in Workers(kind) /\ pc[t] \notin {"unspawned", "panicked"}
                THEN "done" ELSE pc[t]]
    /\ UNCHANGED <<kind, rb, run, scratch, denoise_first, data_in, data_out, out_i,
                   resampled, net, stream, owner, limit, call, socket, captured,
                   pushed, dropped, popped, out_pops, late_frames>>

\* is_none() that is true of every Option.
IsNoneAlways(option) == TRUE

\* state.self_listen.is_none()
IsNone(option) == ~option

\* update(state, Message::InputDeviceChange(device))
InputDeviceChange(device) ==
    /\ app.at = "idle"
    /\ app' = [app EXCEPT !.input_device = device, !.message = "InputDeviceChange"]
    /\ UNCHANGED program

\* update(state, Message::OutputDeviceChange(device))
OutputDeviceChange(device) ==
    /\ app.at = "idle"
    /\ app' = [app EXCEPT !.output_device = device, !.message = "OutputDeviceChange"]
    /\ UNCHANGED program

\* update(state, Message::PeerAddressChange(peer_address))
PeerAddressChange(peer_address) ==
    /\ app.at = "idle"
    /\ app' = [app EXCEPT !.peer_address = peer_address,
                          !.message = "PeerAddressChange"]
    /\ UNCHANGED program

\* update(state, Message::PeerConnect): Message::PeerConnect => {}
PeerConnect ==
    /\ app.at = "idle"
    /\ app' = [app EXCEPT !.message = "PeerConnect"]
    /\ UNCHANGED program

\* update(state, Message::TabSelected(tab))
TabSelected(tab) ==
    /\ app.at = "idle"
    /\ app' = [app EXCEPT !.active_tab = tab, !.message = "TabSelected"]
    /\ UNCHANGED program

\* update(state, Message::SelfListenPressed).  With no pipeline, the devices
\* are unwrapped (None panics) and SelfListen::new runs to its return or to
\* the panic of one of its expects (its statements are NewStep); with a
\* pipeline, the assignment of None drops it, which DropStep goes through
\* before the handler returns.
SelfListenPressed ==
    /\ app.at = "idle"
    /\ app.presses < MaxPresses
    /\ IF IsNone(app.self_listen)
       THEN IF app.input_device = None \/ app.output_device = None
            THEN Panics("SelfListenPressed",
                        "called Option::unwrap() on a None value")
            ELSE \/ /\ New("SelfListen", Stops(MaxHeard, MaxFramesAll))
                    /\ app' = [Allocated("SelfListen") EXCEPT
                                 !.self_listen = TRUE,
                                 !.presses = @ + 1,
                                 !.message = "SelfListenPressed"]
                 \/ Panics("SelfListenPressed", "SelfListen::new")
       ELSE /\ app' = [app EXCEPT !.at = "dropping", !.message = "SelfListenPressed"]
            /\ UNCHANGED program

\* The next step of the drop the handler is in.
HandlerDropStep ==
    /\ app.at = "dropping"
    /\ DropStep

\* The pipeline is dropped: None is stored and the handler returns.
HandlerReturn ==
    /\ app.at = "dropping"
    /\ Dropped
    /\ app' = [app EXCEPT !.at = "idle", !.self_listen = FALSE, !.p2p = FALSE,
                          !.presses = IF app.self_listen THEN @ + 1 ELSE @]
    /\ UNCHANGED program

\* The value of the run flag a worker left of an earlier pipeline loads.
LoadOf(o) ==
    IF \E w \in DOMAIN app.flag : app.flag[w] = o.flag
    THEN run[CHOOSE w \in DOMAIN app.flag : app.flag[w] = o.flag]
    ELSE FALSE

\* A worker left of an earlier pipeline loads its run flag, finds it false
\* and returns: its closure is dropped with all it holds.
LeftoverReturns(o) ==
    /\ o \in app.old
    /\ ~LoadOf(o)
    /\ app' = [app EXCEPT !.old = @ \ {o}]
    /\ UNCHANGED program

\* The application from init() on.
InitApp ==
    /\ Asked("SelfListen", Stops(MaxHeard, MaxFramesAll), Ports, Peers)
    /\ \E input_device, output_device \in {None} \cup Devices :
          app = AppInit(input_device, output_device)

Update ==
    \/ \E device \in Devices : InputDeviceChange(device)
    \/ \E device \in Devices : OutputDeviceChange(device)
    \/ \E peer_address \in PeerAddresses : PeerAddressChange(peer_address)
    \/ PeerConnect
    \/ \E tab \in Tabs : TabSelected(tab)
    \/ SelfListenPressed

NextApp ==
    \/ Update
    \/ HandlerDropStep
    \/ HandlerReturn
    \/ \E o \in app.old : LeftoverReturns(o)
    \/ CaptureStep
    \/ PlaybackStep
    \/ \E w \in Resamplers : ResamplerStep(w)
    \/ DenoiseStep

SpecApp == InitApp /\ [][NextApp]_vars

\* The addresses of the ring buffers and run flags of the pipeline that was
\* constructed last.
Own ==
    {app.ring[r] : r \in DOMAIN app.ring} \cup {app.flag[w] : w \in DOMAIN app.flag}

\* No ring buffer and no run flag of a pipeline is one of another pipeline,
\* and those of one pipeline are all different.
NothingShared ==
    /\ \A o \in app.old : o.of < app.made /\ o.holds \cap Own = {}
    /\ \A o, q \in app.old : o.of # q.of => o.holds \cap q.holds = {}
    /\ Cardinality(Own) = Cardinality(DOMAIN app.ring) + Cardinality(DOMAIN app.flag)

PortHeld == \E o \in app.old \cup Leftover : o.socket

\* What the capture device delivers to the pipeline the holder constructs
\* after `made` others: the frames of the run go to the first pipeline, and
\* the device is silent after them.
DeviceAfter(made) == Stops(IF made = 0 THEN MaxCapture ELSE 0, MaxFramesAll)

\* state.p2p = Some(P2P::new(..)): UdpSocket::bind fails while the port is
\* in use, and the constructor unwraps its result; no other process uses
\* the port.  Any other expect of the constructor may panic as well.
HolderNew ==
    /\ app.at = "idle"
    /\ ~app.p2p
    /\ app.made < MaxMade
    /\ IF PortHeld
       THEN Panics(app.message, "Failed to bind udp socket")
       ELSE \/ /\ New("P2P", DeviceAfter(app.made))
               /\ app' = [Allocated("P2P") EXCEPT !.p2p = TRUE]
            \/ Panics(app.message, "P2P::new")

\* state.p2p = None: the drop begins.
HolderDrop ==
    /\ app.at = "idle"
    /\ app.p2p
    /\ app' = [app EXCEPT !.at = "dropping"]
    /\ UNCHANGED program

InitAgain ==
    /\ Asked("P2P", DeviceAfter(0), {Port}, {Loopback})
    /\ \E device \in Devices : app = AppInit(device, device)

NextAgain ==
    \/ HolderNew
    \/ HolderDrop
    \/ HandlerDropStep
    \/ HandlerReturn
    \/ \E o \in app.old : LeftoverReturns(o)
    \/ CaptureStep
    \/ PlaybackStep
    \/ \E w \in Resamplers : ResamplerStep(w)
    \/ DenoiseStep
    \/ EncoderStep
    \/ DecoderStep

SpecAgain == InitAgain /\ [][NextAgain]_vars

(***************************************************************************)
(* C37.  A P2P pipeline constructed after the pipeline before it was       *)
(* dropped always binds the local UDP port: no thread of the pipeline      *)
(* before holds the socket when the new bind is attempted, so the          *)
(* constructor never panics with "Failed to bind udp socket".              *)
(***************************************************************************)
C37_NextBindSucceeds == app.panic # "Failed to bind udp socket"

\* The State holds a pipeline exactly when the number of SelfListenPressed
\* messages handled is odd; the pipeline it holds is the one constructed
\* last, and every pipeline before that one was dropped: the flag a worker
\* left of it loads is false.
OddHolds ==
    /\ app.self_listen = (app.presses % 2 = 1)
    /\ app.self_listen => app.made > 0 /\ pc["new"] = "returned"
    /\ ~app.self_listen /\ app.made > 0 => Dropped
    /\ \A o \in app.old : ~LoadOf(o)

(***************************************************************************)
(* C38.  SelfListenPressed toggles the loopback pipeline: with             *)
(* state.self_listen None it constructs a pipeline and stores it,          *)
(* otherwise it drops the pipeline and stores None.  After any sequence of *)
(* messages the State holds at most one pipeline, and holds one exactly    *)
(* when an odd number of SelfListenPressed messages has been handled; a    *)
(* handler of any other message (device change, peer address change,       *)
(* PeerConnect, tab selection) leaves self_listen and the pipeline as they *)
(* are.                                                                    *)
(***************************************************************************)
C38_SelfListenPressedToggles ==
    /\ OddHolds
    /\ [][app' # app =>
            /\ OddHolds'
            /\ app'.presses # app.presses =>
                  /\ app'.presses = app.presses + 1
                  /\ app'.message = "SelfListenPressed"
                  /\ app'.self_listen = ~app.self_listen
                  /\ IF app'.self_listen
                        THEN /\ app'.made = app.made + 1
                             /\ \A w \in Workers(kind') : run'[w] /\ pc'[w] = "loop"
                             /\ \A st \in DOMAIN stream' : stream'[st] = "playing"
                        ELSE app'.made = app.made /\ Dropped'
            /\ app'.old = app.old /\ app'.message # "SelfListenPressed" =>
                  /\ app'.self_listen = app.self_listen
                  /\ app'.presses = app.presses
                  /\ app'.made = app.made
                  /\ UNCHANGED program]_vars

\* The third SelfListenPressed has constructed the second pipeline, which
\* has samples in a ring buffer; then the tab was changed.
C38_Witness ==
    /\ app.presses = 3
    /\ app.self_listen
    /\ app.made = 2
    /\ app.message = "TabSelected"
    /\ app.active_tab = "Settings"
    /\ rb["input"] # <<>>

(***************************************************************************)
(* C39.  Handling SelfListenPressed while no input device or no output     *)
(* device is selected does not crash the application: the handler does not *)
(* panic, no pipeline is created and the State is left as it is.           *)
(***************************************************************************)
C39_PressWithoutDeviceIsHarmless ==
    [][/\ app.at = "idle"
       /\ app.input_device = None \/ app.output_device = None
       /\ app'.message = "SelfListenPressed"
       /\ app' # app
       => /\ app'.at = "idle"
          /\ app'.panic = "none"
          /\ app'.made = app.made
          /\ app'.self_listen = app.self_listen
          /\ app'.input_device = app.input_device
          /\ app'.output_device = app.output_device
          /\ UNCHANGED program]_vars

====
